---- MODULE Spec2Model ----
(***************************************************************************)
(* Model of the extraction-and-reconciliation engine of Paci_Backend.      *)
(*                                                                         *)
(* src/reconcile_logic1.py is the module the application imports           *)
(* (src/app.py:7); src/reconcile_logic.py holds an older variant of the    *)
(* same pipeline.  The model covers                                        *)
(*   - pre_match_invoices_payments and reconcile_invoices_with_llm,        *)
(*   - reconcile_with_llm (expense bills against savings statements),      *)
(*   - the line-oriented extractors.                                       *)
(*                                                                         *)
(* Text is modelled as a sequence of chunks (each chunk stands for a       *)
(* literal piece of text), amounts as integer cents, a date string as a    *)
(* record [m, d] of the year 2025.                                         *)
(***************************************************************************)
EXTENDS Integers, Sequences, FiniteSets, TLC

(***************************************************************************)
(* Bounds of the model.                                                    *)
(***************************************************************************)
MaxInv == 2
MaxPay == 2
MaxLines == 4
MaxDocs == 2

\* the absent invoice number (python None)
NoKey == <<>>

Abs(x) == IF x < 0 THEN -x ELSE x

Range(s) == {s[k] : k \in DOMAIN s}

RECURSIVE SeqFilterIdx(_, _, _)
\* [s[k] for k in 1..Len(s) if k \notin drop], python list comprehension
SeqFilterIdx(s, drop, k) ==
    IF k > Len(s) THEN <<>>
    ELSE (IF k \in drop THEN <<>> ELSE <<s[k]>>) \o SeqFilterIdx(s, drop, k + 1)

SeqsUpTo(S, n) == UNION {[1..k -> S] : k \in 0..n}

(***************************************************************************)
(* Text.                                                                   *)
(***************************************************************************)
\* chunks made only of characters of the class [A-Z0-9-]
KeyChunks == {"INV-", "A", "B"}

\* python: needle in hay
Contains(hay, needle) ==
    \E k \in 0..(Len(hay) - Len(needle)) :
        SubSeq(hay, k + 1, k + Len(needle)) = needle

RECURSIVE KeyEnd(_, _)
\* greedy [A-Z0-9-]+ : last index of the run of key chunks starting at p
KeyEnd(desc, p) ==
    IF p + 1 <= Len(desc) /\ desc[p + 1] \in KeyChunks
    THEN KeyEnd(desc, p + 1) ELSE p

\* re.search(r'INV-[A-Z0-9-]+', desc): leftmost "INV-" followed by at least
\* one key character, extended greedily
extract_invoice_no(desc) ==
    LET starts == {p \in 1..Len(desc) :
                      /\ desc[p] = "INV-"
                      /\ p + 1 <= Len(desc)
                      /\ desc[p + 1] \in KeyChunks}
    IN IF starts = {} THEN NoKey
       ELSE LET p == CHOOSE q \in starts : \A r \in starts : q <= r
            IN SubSeq(desc, p, KeyEnd(desc, p))

RECURSIVE LStrip(_)
LStrip(s) == IF s # <<>> /\ Head(s) = " " THEN LStrip(Tail(s)) ELSE s

RECURSIVE RStrip(_)
RStrip(s) ==
    IF s # <<>> /\ s[Len(s)] = " "
    THEN RStrip(SubSeq(s, 1, Len(s) - 1)) ELSE s

\* python: str.strip()
Strip(s) == RStrip(LStrip(s))

(***************************************************************************)
(* Dates: a date string "2025-mm-dd" is a record [m, d].                   *)
(***************************************************************************)
DaysInMonth(m) ==
    CASE m \in {1, 3, 5, 7, 8, 10, 12} -> 31
      [] m \in {4, 6, 9, 11} -> 30
      [] m = 2 -> 28
      [] OTHER -> 0

RECURSIVE DaysBefore(_)
DaysBefore(m) == IF m <= 1 THEN 0 ELSE DaysInMonth(m - 1) + DaysBefore(m - 1)

\* datetime.strptime(s, "%Y-%m-%d").date(): the day of the year, or 0 when
\* the text is not a calendar date and strptime raises (the "%Y/%m/%d"
\* retry fails on every dash-separated text as well)
strptime(s) ==
    IF s.m \in 1..12 /\ s.d \in 1..DaysInMonth(s.m)
    THEN DaysBefore(s.m) + s.d
    ELSE 0

(***************************************************************************)
(* Amounts are cents.  The code compares float differences with 0.01; for  *)
(* two amounts one cent apart the outcome depends on the binary rounding   *)
(* of the operands: abs(100.01 - 100.0) = 0.010000000000005116 but         *)
(* abs(50.01 - 50.0) = 0.00999999999999801.                                *)
(***************************************************************************)
OneCentBelow == {{5000, 5001}}

\* abs(a - b) > 0.01
DiffAbove(a, b) ==
    \/ Abs(a - b) >= 2
    \/ Abs(a - b) = 1 /\ {a, b} \notin OneCentBelow

\* abs(a - b) < 0.01
DiffBelow(a, b) ==
    \/ a = b
    \/ Abs(a - b) = 1 /\ {a, b} \in OneCentBelow

(***************************************************************************)
(* Records.  A valid record carries date, amount and description; the      *)
(* parse-failure marker carries parsing_failed = TRUE.                     *)
(***************************************************************************)
D(m, d) == [m |-> m, d |-> d]

Rec(dt, amt, desc) ==
    [date |-> dt, amount |-> amt, description |-> desc, parsing_failed |-> FALSE]

FailedDesc == <<"Unknown">>

\* {"parsing_failed": True, "file": ..., "reason": ...}
\* (date, amount and description are absent keys; the values below are
\* never read, the marker is filtered out before any of them is used)
Marker ==
    [date |-> D(0, 0), amount |-> 0, description |-> FailedDesc,
     parsing_failed |-> TRUE]

dInvA == <<"Invoice", " ", "INV-", "A">>
dKeyA == <<"INV-", "A">>
dCab == <<"Cab Fare">>
dSetA == <<"Settle", " ", "INV-", "A">>
dRefund == <<"Refund", " ", "to", " ", "Merchant">>
dMisc == <<"Misc">>

\* the invoice records the runs are given
InvoicePool ==
    { Rec(D(6, 20), 10000, dInvA),
      Rec(D(6, 21), 10000, dInvA),
      Rec(D(6, 24), 10000, dKeyA),
      Rec(D(6, 20), 5001, dCab),
      Marker }

\* the current-account entries the runs are given
StatementPool ==
    { Rec(D(6, 20), 10000, dSetA),
      Rec(D(6, 24), 10000, dSetA),
      Rec(D(6, 31), 10000, dSetA),
      Rec(D(6, 20), -5000, dMisc),
      Rec(D(6, 23), 10000, dRefund),
      Marker }

dATM == <<"ATM Withdrawal">>

\* the expense-bill records the runs are given
ExpensePool ==
    { Rec(D(12, 1), 10000, dCab),
      Rec(D(12, 2), 20000, dCab),
      Marker }

\* the savings-account entries the runs are given
SavingsPool ==
    { Rec(D(12, 1), 10000, dCab),
      Rec(D(12, 2), 20000, dATM),
      Marker }

(***************************************************************************)
(* pre_match_invoices_payments.  Indexes are 1-based here, 0-based in the  *)
(* source.  The field pairing is an auxiliary trace of the (i, j) pairs    *)
(* whose payment was appended to matched_pairs.                            *)
(***************************************************************************)
date_window == 3

\* f"{pay.get('amount')}-{pay.get('date')}-{pay.get('description')}"
match_key(pay) == <<pay.amount, pay.date, pay.description>>

\* the dict appended to matched_pairs
matched_entry(pay) ==
    [date |-> pay.date, amount |-> pay.amount, description |-> pay.description]

PreMatchEmpty ==
    [matched_pairs |-> <<>>, matched_invoice_idxs |-> {},
     matched_payment_idxs |-> {}, matched_desc_set |-> {}, pairing |-> <<>>]

\* the test of lines 498-503 for one candidate pair
PairAccepted(inv, pay, window, st) ==
    /\ ~DiffAbove(inv.amount, pay.amount)
    /\ extract_invoice_no(inv.description) # NoKey
    /\ Contains(pay.description, extract_invoice_no(inv.description))
    /\ Abs(strptime(pay.date) - strptime(inv.date)) <= window
    /\ match_key(pay) \notin st.matched_desc_set

RECURSIVE ScanPayments(_, _, _, _, _, _)
\* the inner loop, from payment j on
ScanPayments(inv, i, payments, j, window, st) ==
    IF j > Len(payments) THEN st
    ELSE IF j \in st.matched_payment_idxs
         THEN ScanPayments(inv, i, payments, j + 1, window, st)
    ELSE IF strptime(payments[j].date) = 0
         THEN ScanPayments(inv, i, payments, j + 1, window, st)
    ELSE IF PairAccepted(inv, payments[j], window, st)
         THEN [matched_pairs |-> Append(st.matched_pairs, matched_entry(payments[j])),
               matched_invoice_idxs |-> st.matched_invoice_idxs \cup {i},
               matched_payment_idxs |-> st.matched_payment_idxs \cup {j},
               matched_desc_set |-> st.matched_desc_set \cup {match_key(payments[j])},
               pairing |-> Append(st.pairing, <<i, j>>)]
    ELSE ScanPayments(inv, i, payments, j + 1, window, st)

RECURSIVE ScanInvoices(_, _, _, _, _)
\* the outer loop, from invoice i on
ScanInvoices(invoices, i, payments, window, st) ==
    IF i > Len(invoices) THEN st
    ELSE IF strptime(invoices[i].date) = 0
         THEN ScanInvoices(invoices, i + 1, payments, window, st)
    ELSE ScanInvoices(invoices, i + 1, payments, window,
                      ScanPayments(invoices[i], i, payments, 1, window, st))

\* lines 465-516 with every payment returned as unmatched
pre_match_invoices_payments_all_unmatched(invoices, payments, window) ==
    LET st == ScanInvoices(invoices, 1, payments, window, PreMatchEmpty)
    IN [matched_pairs |-> st.matched_pairs,
        unmatched_invoices |-> SeqFilterIdx(invoices, st.matched_invoice_idxs, 1),
        unmatched_payments |-> payments,
        matched_invoice_idxs |-> st.matched_invoice_idxs,
        matched_payment_idxs |-> st.matched_payment_idxs,
        pairing |-> st.pairing]

pre_match_invoices_payments(invoices, payments, window) ==
    LET st == ScanInvoices(invoices, 1, payments, window, PreMatchEmpty)
    IN [matched_pairs |-> st.matched_pairs,
        unmatched_invoices |-> SeqFilterIdx(invoices, st.matched_invoice_idxs, 1),
        unmatched_payments |-> SeqFilterIdx(payments, st.matched_payment_idxs, 1),
        matched_invoice_idxs |-> st.matched_invoice_idxs,
        matched_payment_idxs |-> st.matched_payment_idxs,
        pairing |-> st.pairing]

RECURSIVE SelectValid(_)
\* [r for r in records if not r.get("parsing_failed")]
SelectValid(records) ==
    IF records = <<>> THEN <<>>
    ELSE (IF Head(records).parsing_failed THEN <<>> ELSE <<Head(records)>>)
         \o SelectValid(Tail(records))

(***************************************************************************)
(* The external matching oracle.  Its answer is free-form JSON; the model  *)
(* lets it give one of a few answers over the records it was shown:        *)
(*   "strict"  the answer the prompt asks for (first occurrences kept,     *)
(*             exact date, amount and key, keyword reimbursements),        *)
(*   "nothing" every record shown is reported unmatched,                   *)
(*   "reuse"   every invoice shown is reported matched with the first      *)
(*             entry shown,                                                *)
(*   "silent"  every bucket is empty.                                      *)
(***************************************************************************)
OracleModes == {"strict", "nothing", "reuse", "silent"}

Lower(chunk) ==
    CASE chunk = "INV-" -> "inv-"
      [] chunk = "A" -> "a"
      [] chunk = "B" -> "b"
      [] chunk = "Invoice" -> "invoice"
      [] chunk = "Settle" -> "settle"
      [] chunk = "Refund" -> "refund"
      [] chunk = "Merchant" -> "merchant"
      [] chunk = "Cab Fare" -> "cab fare"
      [] chunk = "Misc" -> "misc"
      [] OTHER -> chunk

\* python: str.lower()
LowerText(s) == [k \in DOMAIN s |-> Lower(s[k])]

ReimbursementKeywords == {<<"refund">>, <<"reimbursement">>, <<"reversal">>}

HasKeyword(desc) ==
    \E kw \in ReimbursementKeywords : Contains(LowerText(desc), kw)

SameTriple(r, q) ==
    r.date = q.date /\ r.amount = q.amount /\ r.description = q.description

\* indexes of the records that repeat an earlier record of the list
LaterOccurrences(s) ==
    {k \in DOMAIN s : \E h \in 1..(k - 1) : SameTriple(s[h], s[k])}

\* the prompt's rule for a pair, per kind of reconciliation
OraclePairOk(kind, a, b) ==
    /\ a.amount = b.amount
    /\ a.date = b.date
    /\ IF kind = "invoice"
       THEN /\ extract_invoice_no(a.description) # NoKey
            /\ Contains(LowerText(b.description),
                        LowerText(extract_invoice_no(a.description)))
       ELSE LowerText(a.description) = LowerText(b.description)

RECURSIVE OracleGreedy(_, _, _, _, _, _, _)
\* one-to-one pairs <<i, j>> among the first occurrences, in list order
OracleGreedy(kind, as, i, bs, skipA, usedB, acc) ==
    IF i > Len(as) THEN acc
    ELSE LET cand == {j \in DOMAIN bs :
                         /\ j \notin usedB
                         /\ OraclePairOk(kind, as[i], bs[j])}
         IN IF i \in skipA \/ cand = {}
            THEN OracleGreedy(kind, as, i + 1, bs, skipA, usedB, acc)
            ELSE LET j == CHOOSE x \in cand : \A y \in cand : x <= y
                 IN OracleGreedy(kind, as, i + 1, bs, skipA, usedB \cup {j},
                                 Append(acc, <<i, j>>))

\* the answer over the duplicates dupA, dupB and the one-to-one pairs found
OracleIndexesOf(mode, as, bs, dupA, dupB, pairs) ==
    LET mA == {pairs[k][1] : k \in DOMAIN pairs}
        mB == {pairs[k][2] : k \in DOMAIN pairs}
        reimb == {j \in DOMAIN bs : j \notin mB \cup dupB /\ HasKeyword(bs[j].description)}
    IN CASE mode = "strict" ->
              [pairs |-> pairs, unA |-> (DOMAIN as) \ (mA \cup dupA),
               unB |-> (DOMAIN bs) \ (mB \cup dupB \cup reimb),
               reimb |-> reimb, dupA |-> dupA, dupB |-> dupB]
         [] mode = "nothing" ->
              [pairs |-> <<>>, unA |-> DOMAIN as, unB |-> DOMAIN bs,
               reimb |-> {}, dupA |-> {}, dupB |-> {}]
         [] mode = "reuse" ->
              [pairs |-> IF bs = <<>> THEN <<>> ELSE [k \in DOMAIN as |-> <<k, 1>>],
               unA |-> IF bs = <<>> THEN DOMAIN as ELSE {},
               unB |-> (DOMAIN bs) \ {1},
               reimb |-> {}, dupA |-> {}, dupB |-> {}]
         [] OTHER ->
              [pairs |-> <<>>, unA |-> {}, unB |-> {},
               reimb |-> {}, dupA |-> {}, dupB |-> {}]

\* the answer in terms of indexes into the lists shown
OracleIndexes(mode, kind, as, bs) ==
    OracleIndexesOf(mode, as, bs, LaterOccurrences(as), LaterOccurrences(bs),
                    OracleGreedy(kind, as, 1, bs, LaterOccurrences(as),
                                 LaterOccurrences(bs), <<>>))

\* s restricted to the indexes of keep, in list order
Pick(s, keep) == SeqFilterIdx(s, (DOMAIN s) \ keep, 1)

(***************************************************************************)
(* State.                                                                  *)
(***************************************************************************)
VARIABLES
    task,                \* which entry point this run exercises
    pc,                  \* position inside the entry point
    invoices,            \* argument of reconcile_invoices_with_llm
    current_statements,  \* argument of reconcile_invoices_with_llm
    expenses,            \* argument of reconcile_with_llm
    statements,          \* argument of reconcile_with_llm
    doc,                 \* the document an extractor is given
    extracted,           \* the list the extractor returned
    keys,                \* the documents of a multi-document run (first side)
    done_keys,           \* number of documents the run has been through
    statement_keys,      \* the statement documents of a multi-document run
    done_statement_keys, \* number of statement documents the run has been through
    all_statements,      \* the statement records the run has extracted
    pm,                  \* what pre_match_invoices_payments returned
    response,            \* the response dict being built
    result,              \* what the entry point gave back to its caller
    oracle_calls,        \* number of times the oracle was invoked
    path,                \* the branch the run took (history)
    answer               \* the kind of answer the oracle gave (history)

inputs == <<task, invoices, current_statements, expenses, statements, doc, keys,
            statement_keys>>

vars == <<inputs, pc, pm, response, result, oracle_calls, path, answer,
          extracted, done_keys, all_statements, done_statement_keys>>

\* the position of the extraction loops of a multi-document run
loops == <<done_keys, done_statement_keys, all_statements>>

NoResponse ==
    [matched |-> <<>>, unmatched_invoices |-> <<>>, unmatched_payments |-> <<>>,
     reimbursements |-> <<>>, dup_invoices |-> <<>>, dup_statements |-> <<>>,
     pairing |-> <<>>]

NoPreMatch ==
    [matched_pairs |-> <<>>, unmatched_invoices |-> <<>>,
     unmatched_payments |-> <<>>, matched_invoice_idxs |-> {},
     matched_payment_idxs |-> {}, pairing |-> <<>>]

\* a line of free text (the oracle's or the code's own summary sentence)
TextLine(t) == [kind |-> "text", text |-> t, entry |-> <<>>]

\* summary is the list of text lines handed back, workbook the sheets of
\* llm_invoice_reconciliation.xlsx, current_account those of
\* reconciliation/current_account.xlsx
NoResult ==
    [status |-> "running", response |-> NoResponse, summary |-> <<>>,
     workbook |-> <<>>, current_account |-> <<>>]

valid_invoices == SelectValid(invoices)
valid_statements == SelectValid(current_statements)

\* indexes 1..n outside drop, ascending
Remaining(n, drop) == SeqFilterIdx([k \in 1..n |-> k], drop, 1)

NoDoc == [download |-> FALSE, opens |-> FALSE, readable |-> FALSE, lines |-> <<>>]

InitInvoice ==
    /\ task = "invoice"
    /\ pc = "start"
    /\ invoices \in SeqsUpTo(InvoicePool, MaxInv)
    /\ current_statements \in SeqsUpTo(StatementPool, MaxPay)
    /\ expenses = <<>>
    /\ statements = <<>>
    /\ doc = NoDoc
    /\ keys = <<>>
    /\ done_keys = 0
    /\ statement_keys = <<>>
    /\ done_statement_keys = 0
    /\ all_statements = <<>>
    /\ extracted = <<>>
    /\ pm = NoPreMatch
    /\ response = NoResponse
    /\ result = NoResult
    /\ oracle_calls = 0
    /\ path = "none"
    /\ answer = "none"

NoExpenseResponse ==
    [expense_bills |-> <<>>, saving_account_entries |-> <<>>,
     matched |-> <<>>, unmatched_expenses |-> <<>>, unmatched_debits |-> <<>>,
     dup_expenses |-> <<>>, dup_statements |-> <<>>, pairing |-> <<>>]

InitExpense ==
    /\ task = "expense"
    /\ pc = "start"
    /\ invoices = <<>>
    /\ current_statements = <<>>
    /\ expenses \in SeqsUpTo(ExpensePool, MaxInv)
    /\ statements \in SeqsUpTo(SavingsPool, MaxPay)
    /\ doc = NoDoc
    /\ keys = <<>>
    /\ done_keys = 0
    /\ statement_keys = <<>>
    /\ done_statement_keys = 0
    /\ all_statements = <<>>
    /\ extracted = <<>>
    /\ pm = NoPreMatch
    /\ response = NoExpenseResponse
    /\ result = [status |-> "running", response |-> NoExpenseResponse,
                 summary |-> <<>>]
    /\ oracle_calls = 0
    /\ path = "none"
    /\ answer = "none"

(***************************************************************************)
(* reconcile_invoices_with_llm (src/reconcile_logic1.py).                  *)
(***************************************************************************)
dSetLower == <<"settle", " ", "inv-", "a">>

\* the invoices a call of pre_match_invoices_payments by itself is given
MatchInvoicePool ==
    { Rec(D(6, 20), 10000, dInvA),
      Rec(D(6, 20), 10001, dInvA),
      Rec(D(6, 20), 5001, dInvA),
      Rec(D(6, 20), 5001, dCab) }

\* the entries a call of pre_match_invoices_payments by itself is given
MatchStatementPool ==
    { Rec(D(6, 20), 10000, dSetA),
      Rec(D(6, 22), 10000, dSetA),
      Rec(D(6, 20), 5000, dSetA),
      Rec(D(6, 20), 10000, dSetLower),
      Rec(D(6, 20), 5001, dCab) }

\* a run that consists of the call of line 526 alone
InitPreMatch ==
    /\ task = "pre_match"
    /\ pc = "start"
    /\ invoices \in SeqsUpTo(MatchInvoicePool, MaxInv)
    /\ current_statements \in SeqsUpTo(MatchStatementPool, MaxPay)
    /\ expenses = <<>>
    /\ statements = <<>>
    /\ doc = NoDoc
    /\ keys = <<>>
    /\ done_keys = 0
    /\ statement_keys = <<>>
    /\ done_statement_keys = 0
    /\ all_statements = <<>>
    /\ extracted = <<>>
    /\ pm = NoPreMatch
    /\ response = NoResponse
    /\ result = NoResult
    /\ oracle_calls = 0
    /\ path = "none"
    /\ answer = "none"

\* lines 522-526 with the parse-failure markers removed from the caller's
\* lists in place
PreMatch_in_place ==
    /\ task \in {"invoice", "pre_match"} /\ pc = "start"
    /\ pm' = pre_match_invoices_payments(valid_invoices, valid_statements, date_window)
    /\ pc' = IF task = "invoice" THEN "branch" ELSE "done"
    /\ invoices' = valid_invoices
    /\ current_statements' = valid_statements
    /\ UNCHANGED <<task, expenses, statements, doc, keys, statement_keys,
                   response, result, oracle_calls, path, answer, extracted, loops>>

\* lines 522-526
PreMatch ==
    /\ task \in {"invoice", "pre_match"} /\ pc = "start"
    /\ pm' = pre_match_invoices_payments(valid_invoices, valid_statements, date_window)
    /\ pc' = IF task = "invoice" THEN "branch" ELSE "done"
    /\ UNCHANGED <<inputs, response, result, oracle_calls, path, answer, extracted, loops>>

\* the condition of line 529
AllPreMatched ==
    \/ Len(pm.matched_pairs) = Len(valid_invoices)
    \/ pm.unmatched_invoices = <<>>

\* lines 529-540: no oracle call
DeterministicPath ==
    /\ task = "invoice" /\ pc = "branch"
    /\ AllPreMatched
    /\ response' = [matched |-> pm.matched_pairs,
                    unmatched_invoices |-> <<>>,
                    unmatched_payments |-> pm.unmatched_payments,
                    reimbursements |-> <<>>,
                    dup_invoices |-> <<>>,
                    dup_statements |-> <<>>,
                    pairing |-> pm.pairing]
    /\ path' = "deterministic"
    /\ pc' = "merge"
    /\ UNCHANGED <<inputs, pm, result, oracle_calls, answer, extracted, loops>>

\* the oracle's answer over the unmatched records it is shown (lines 654-657)
OracleAnswer(ix, as, bs, ia, ib) ==
    [matched |-> [k \in DOMAIN ix.pairs |-> matched_entry(bs[ix.pairs[k][2]])],
     unmatched_invoices |-> Pick(as, ix.unA),
     unmatched_payments |-> Pick(bs, ix.unB),
     reimbursements |-> Pick(bs, ix.reimb),
     dup_invoices |-> Pick(as, ix.dupA),
     dup_statements |-> Pick(bs, ix.dupB),
     pairing |-> [k \in DOMAIN ix.pairs |->
                     <<ia[ix.pairs[k][1]], ib[ix.pairs[k][2]]>>]]

\* the answer over the records pre-matching left unmatched; pairing is in
\* indexes into the valid lists
OracleResponse(mode) ==
    OracleAnswer(OracleIndexes(mode, "invoice", pm.unmatched_invoices,
                               pm.unmatched_payments),
                 pm.unmatched_invoices, pm.unmatched_payments,
                 Remaining(Len(valid_invoices), pm.matched_invoice_idxs),
                 Remaining(Len(valid_statements), pm.matched_payment_idxs))

\* lines 649-657: the primary chain answers with parseable JSON
OraclePrimary ==
    /\ task = "invoice" /\ pc = "branch"
    /\ ~AllPreMatched
    /\ \E mode \in OracleModes :
          response' = OracleResponse(mode) /\ answer' = mode
    /\ oracle_calls' = oracle_calls + 1
    /\ path' = "oracle"
    /\ pc' = "merge"
    /\ UNCHANGED <<inputs, pm, result, extracted, loops>>

\* line 658: the primary chain raises
OraclePrimaryFails ==
    /\ task = "invoice" /\ pc = "branch"
    /\ ~AllPreMatched
    /\ oracle_calls' = oracle_calls + 1
    /\ pc' = "fallback"
    /\ UNCHANGED <<inputs, pm, response, result, path, answer, extracted, loops>>

\* lines 660-700: the fallback chain answers and its text parses
FallbackParsed ==
    /\ task = "invoice" /\ pc = "fallback"
    /\ \E mode \in OracleModes :
          response' = OracleResponse(mode) /\ answer' = mode
    /\ oracle_calls' = oracle_calls + 1
    /\ path' = "fallback_parsed"
    /\ pc' = "merge"
    /\ UNCHANGED <<inputs, pm, result, extracted, loops>>

\* the dict of lines 670-683 and of lines 703-712
FallbackDict ==
    [matched |-> <<>>,
     unmatched_invoices |-> pm.unmatched_invoices,
     unmatched_payments |-> pm.unmatched_payments,
     reimbursements |-> <<>>,
     dup_invoices |-> <<>>,
     dup_statements |-> <<>>,
     pairing |-> <<>>]

\* lines 668-684: the fallback text holds no JSON object; early return
FallbackNoJson ==
    /\ task = "invoice" /\ pc = "fallback"
    /\ oracle_calls' = oracle_calls + 1
    /\ result' = [NoResult EXCEPT !.status = "returned",
                                  !.response = FallbackDict,
                                  !.summary = <<TextLine("Failed to extract valid JSON from LLM response")>>]
    /\ path' = "fallback_nojson"
    /\ pc' = "done"
    /\ UNCHANGED <<inputs, pm, response, answer, extracted, loops>>

\* lines 695-712: the fallback text holds braces that neither parser accepts
FallbackBadJson ==
    /\ task = "invoice" /\ pc = "fallback"
    /\ oracle_calls' = oracle_calls + 1
    /\ response' = FallbackDict
    /\ path' = "fallback_badjson"
    /\ pc' = "merge"
    /\ UNCHANGED <<inputs, pm, result, answer, extracted, loops>>

\* lines 713-716: the fallback chain raises; the handler reads raw_output,
\* which line 661 never bound, so the handler itself raises
FallbackRaises ==
    /\ task = "invoice" /\ pc = "fallback"
    /\ oracle_calls' = oracle_calls + 1
    /\ result' = [NoResult EXCEPT !.status = "raised"]
    /\ path' = "fallback_raised"
    /\ pc' = "done"
    /\ UNCHANGED <<inputs, pm, response, answer, extracted, loops>>

\* lines 723-729
is_same_invoice(inv, matched) ==
    \/ /\ DiffBelow(inv.amount, matched.amount)
       /\ Contains(Strip(matched.description), Strip(inv.description))
    \/ Strip(inv.description) = Strip(matched.description)

\* lines 731-735
is_same_payment(pay, matched) ==
    /\ DiffBelow(pay.amount, matched.amount)
    /\ Strip(pay.description) = Strip(matched.description)

\* lines 737-741 (json.dumps of a record is the record)
matched_invoice_set(all_matched) ==
    {inv \in Range(valid_invoices) :
        \E k \in DOMAIN all_matched : is_same_invoice(inv, all_matched[k])}

\* lines 742-746
matched_payment_set(all_matched) ==
    {pay \in Range(valid_statements) :
        \E k \in DOMAIN all_matched : is_same_payment(pay, all_matched[k])}

RECURSIVE Without(_, _)
\* [r for r in s if r not in drop]
Without(s, drop) ==
    IF s = <<>> THEN <<>>
    ELSE (IF Head(s) \in drop THEN <<>> ELSE <<Head(s)>>) \o Without(Tail(s), drop)

\* lines 718-755
MergeAndFilter(resp) ==
    LET all_matched == pm.matched_pairs \o resp.matched
    IN [resp EXCEPT
          !.matched = all_matched,
          !.unmatched_invoices =
              Without(resp.unmatched_invoices, matched_invoice_set(all_matched)),
          !.unmatched_payments =
              Without(resp.unmatched_payments, matched_payment_set(all_matched)),
          !.pairing = pm.pairing \o resp.pairing]

\* f"{amount}-{date}-{desc}" (line 769); the entry line of line 773 spells
\* the same three values
entry_key(e) == <<e.amount, e.date, e.description>>

TitleLine(title) == [kind |-> "title", text |-> title, entry |-> <<>>]

EntryLine(e) == [kind |-> "entry", text |-> "", entry |-> <<entry_key(e)>>]

BlankLine == [kind |-> "blank", text |-> "", entry |-> <<>>]

RECURSIVE LogEntries(_, _, _)
\* the loop of lines 763-774, from entry k on
LogEntries(entries, k, seen_entries) ==
    IF k > Len(entries) THEN <<>>
    ELSE IF entry_key(entries[k]) \in seen_entries
         THEN LogEntries(entries, k + 1, seen_entries)
    ELSE <<EntryLine(entries[k])>>
         \o LogEntries(entries, k + 1, seen_entries \cup {entry_key(entries[k])})

\* lines 758-775: the lines one call appends to summary_lines
log_section(title, entries) ==
    IF entries = <<>> THEN <<>>
    ELSE <<TitleLine(title)>> \o LogEntries(entries, 1, {}) \o <<BlankLine>>

\* lines 757-784
summary_text(resp) ==
    LET summary_lines ==
            log_section("Matched:", resp.matched)
            \o log_section("Unmatched Invoices:", resp.unmatched_invoices)
            \o log_section("Unmatched Payments:", resp.unmatched_payments)
            \o log_section("Reimbursements:", resp.reimbursements)
            \o log_section("Duplicates in Invoices:", resp.dup_invoices)
            \o log_section("Duplicates in Statements:", resp.dup_statements)
    IN IF Len(summary_lines) = 0 THEN <<TextLine("summary")>> ELSE summary_lines

\* a sheet written from a non-empty table, resp. the {"info": "No data"} sheet
Sheet(name, entries) ==
    [name |-> name, rows |-> IF entries = <<>> THEN 1 ELSE Len(entries),
     placeholder |-> entries = <<>>]

\* lines 787-798: llm_invoice_reconciliation.xlsx
ExcelSheets(resp) ==
    << Sheet("matched", resp.matched),
       Sheet("unmatched_invoices", resp.unmatched_invoices),
       Sheet("unmatched_payments", resp.unmatched_payments),
       Sheet("reimbursements", resp.reimbursements),
       Sheet("duplicates_invoices", resp.dup_invoices),
       Sheet("duplicates_statements", resp.dup_statements) >>

\* lines 838-843: a sheet is written only for a non-empty table
safe_write(sheet_name, data) ==
    IF data = <<>> THEN <<>> ELSE <<Sheet(sheet_name, data)>>

\* lines 836-851 of reconcile_current_account
CurrentAccountSheets(resp) ==
    LET written ==
            safe_write("matched", resp.matched)
            \o safe_write("unmatched_invoices", resp.unmatched_invoices)
            \o safe_write("unmatched_payments", resp.unmatched_payments)
            \o safe_write("reimbursements", resp.reimbursements)
            \o safe_write("duplicates_invoices", resp.dup_invoices)
            \o safe_write("duplicates_statements", resp.dup_statements)
    IN IF Len(written) = 0 THEN <<Sheet("empty", <<>>)>> ELSE written

\* lines 718-804: merge, filter, report, return
Finish ==
    /\ task = "invoice" /\ pc = "merge"
    /\ LET resp == MergeAndFilter(response)
       IN result' = [NoResult EXCEPT !.status = "returned",
                                     !.response = resp,
                                     !.summary = summary_text(resp),
                                     !.workbook = ExcelSheets(resp)]
    /\ pc' = "done"
    /\ UNCHANGED <<inputs, pm, response, oracle_calls, path, answer, extracted, loops>>

\* reconcile_current_account, lines 828-855: the caller writes its own
\* workbook from the response it was handed
ExportCurrentAccount ==
    /\ task = "invoice" /\ pc = "done"
    /\ result.status = "returned"
    /\ result' = [result EXCEPT
                    !.current_account = CurrentAccountSheets(result.response)]
    /\ pc' = "exported"
    /\ UNCHANGED <<inputs, pm, response, oracle_calls, path, answer, extracted, loops>>

(***************************************************************************)
(* reconcile_invoices_with_llm of src/reconcile_logic.py (line 1142), the   *)
(* variant without the pre-match: the oracle is shown every valid record.  *)
(***************************************************************************)
InitInvoiceV0 ==
    /\ task = "invoice_v0"
    /\ pc = "start"
    /\ invoices \in SeqsUpTo(InvoicePool, MaxInv)
    /\ current_statements \in SeqsUpTo(StatementPool, MaxPay)
    /\ expenses = <<>>
    /\ statements = <<>>
    /\ doc = NoDoc
    /\ keys = <<>>
    /\ done_keys = 0
    /\ statement_keys = <<>>
    /\ done_statement_keys = 0
    /\ all_statements = <<>>
    /\ extracted = <<>>
    /\ pm = NoPreMatch
    /\ response = NoResponse
    /\ result = NoResult
    /\ oracle_calls = 0
    /\ path = "none"
    /\ answer = "none"

\* the oracle's answer over the valid records (lines 1250-1257)
V0OracleAnswer(ix, as, bs) ==
    [matched |-> [k \in DOMAIN ix.pairs |->
                     [invoice |-> as[ix.pairs[k][1]],
                      statement |-> bs[ix.pairs[k][2]]]],
     unmatched_invoices |-> Pick(as, ix.unA),
     unmatched_payments |-> Pick(bs, ix.unB),
     reimbursements |-> Pick(bs, ix.reimb),
     dup_invoices |-> Pick(as, ix.dupA),
     dup_statements |-> Pick(bs, ix.dupB),
     pairing |-> ix.pairs]

V0OracleResponse(mode) ==
    V0OracleAnswer(OracleIndexes(mode, "invoice", valid_invoices, valid_statements),
                   valid_invoices, valid_statements)

\* the dict of lines 1273-1287, 1302-1312 and 1321-1332
V0FallbackDict ==
    [matched |-> <<>>,
     unmatched_invoices |-> valid_invoices,
     unmatched_payments |-> valid_statements,
     reimbursements |-> <<>>,
     dup_invoices |-> <<>>,
     dup_statements |-> <<>>,
     pairing |-> <<>>]

\* lines 1249-1257: the primary chain answers with parseable JSON
V0OraclePrimary ==
    /\ task = "invoice_v0" /\ pc = "start"
    /\ \E mode \in OracleModes :
          response' = V0OracleResponse(mode) /\ answer' = mode
    /\ oracle_calls' = oracle_calls + 1
    /\ path' = "oracle"
    /\ pc' = "report"
    /\ UNCHANGED <<inputs, pm, result, extracted, loops>>

\* lines 1258-1260: the primary chain raises
V0OraclePrimaryFails ==
    /\ task = "invoice_v0" /\ pc = "start"
    /\ oracle_calls' = oracle_calls + 1
    /\ pc' = "fallback"
    /\ UNCHANGED <<inputs, pm, response, result, path, answer, extracted, loops>>

\* lines 1261-1300: the fallback chain answers and its text parses
V0FallbackParsed ==
    /\ task = "invoice_v0" /\ pc = "fallback"
    /\ \E mode \in OracleModes :
          response' = V0OracleResponse(mode) /\ answer' = mode
    /\ oracle_calls' = oracle_calls + 1
    /\ path' = "fallback_parsed"
    /\ pc' = "report"
    /\ UNCHANGED <<inputs, pm, result, extracted, loops>>

\* lines 1271-1288: the fallback text holds no JSON object; early return
V0FallbackNoJson ==
    /\ task = "invoice_v0" /\ pc = "fallback"
    /\ oracle_calls' = oracle_calls + 1
    /\ result' = [NoResult EXCEPT !.status = "returned",
                                  !.response = V0FallbackDict,
                                  !.summary = <<TextLine("Failed to extract valid JSON from LLM response")>>]
    /\ path' = "fallback_nojson"
    /\ pc' = "done"
    /\ UNCHANGED <<inputs, pm, response, answer, extracted, loops>>

\* lines 1295-1312: the fallback text holds braces that neither parser accepts
V0FallbackBadJson ==
    /\ task = "invoice_v0" /\ pc = "fallback"
    /\ oracle_calls' = oracle_calls + 1
    /\ response' = V0FallbackDict
    /\ path' = "fallback_badjson"
    /\ pc' = "report"
    /\ UNCHANGED <<inputs, pm, result, answer, extracted, loops>>

\* lines 1313-1332: the fallback chain raises; raw_output was bound at line
\* 1260 and the handler builds the response itself
V0FallbackRaises ==
    /\ task = "invoice_v0" /\ pc = "fallback"
    /\ oracle_calls' = oracle_calls + 1
    /\ response' = V0FallbackDict
    /\ path' = "fallback_raised"
    /\ pc' = "report"
    /\ UNCHANGED <<inputs, pm, result, answer, extracted, loops>>

CountLine(label, n) == [kind |-> "count", text |-> label, entry |-> <<n>>]

\* the line of line 1360, resp. 1362
MismatchLine(label, expected, calculated) ==
    [kind |-> "mismatch", text |-> label, entry |-> <<expected, calculated>>]

\* lines 1364-1381: one line per entry, none skipped
V0log_section(title, entries, is_matched) ==
    IF entries = <<>> THEN <<>>
    ELSE <<TitleLine(title)>>
         \o [k \in DOMAIN entries |->
                IF is_matched
                THEN [kind |-> "entry", text |-> "",
                      entry |-> <<entry_key(entries[k].invoice),
                                  entry_key(entries[k].statement)>>]
                ELSE EntryLine(entries[k])]
         \o <<BlankLine>>

\* lines 1334-1390
structured_summary(resp) ==
    LET total_valid_invoices == Len(valid_invoices)
        total_valid_statements == Len(valid_statements)
        calculated_total_invoices ==
            Len(resp.matched) + Len(resp.unmatched_invoices) + Len(resp.dup_invoices)
        calculated_total_statements ==
            Len(resp.matched) + Len(resp.unmatched_payments)
            + Len(resp.reimbursements) + Len(resp.dup_statements)
    IN << TextLine("=== Totals ==="),
          CountLine("Total Invoice Entries", total_valid_invoices),
          CountLine("Total Current Account Entries", total_valid_statements),
          CountLine("Total Matched Invoices", Len(resp.matched)),
          CountLine("Total Unmatched Invoices", Len(resp.unmatched_invoices)),
          CountLine("Total Unmatched Payments", Len(resp.unmatched_payments)),
          CountLine("Total Reimbursements", Len(resp.reimbursements)),
          CountLine("Total Duplicate Invoices", Len(resp.dup_invoices)),
          CountLine("Total Duplicate Statement Entries", Len(resp.dup_statements)),
          BlankLine >>
       \o (IF calculated_total_invoices # total_valid_invoices
           THEN <<MismatchLine("Invoice Count Mismatch", total_valid_invoices,
                               calculated_total_invoices)>>
           ELSE <<>>)
       \o (IF calculated_total_statements # total_valid_statements
           THEN <<MismatchLine("Statement Count Mismatch", total_valid_statements,
                               calculated_total_statements)>>
           ELSE <<>>)
       \o V0log_section("Matched Invoices:", resp.matched, TRUE)
       \o V0log_section("Unmatched Invoices:", resp.unmatched_invoices, FALSE)
       \o V0log_section("Unmatched Payments:", resp.unmatched_payments, FALSE)
       \o V0log_section("Reimbursements:", resp.reimbursements, FALSE)
       \o V0log_section("Duplicate Invoices:", resp.dup_invoices, FALSE)
       \o V0log_section("Duplicate Statement Entries:", resp.dup_statements, FALSE)

\* lines 1393-1403: the sheet total_valid_invoices is read from a key the
\* response does not have, so it always holds the placeholder
V0ExcelSheets(resp) ==
    <<Sheet("total_valid_invoices", <<>>)>> \o ExcelSheets(resp)

\* lines 1334-1409: report and return
V0Finish ==
    /\ task = "invoice_v0" /\ pc = "report"
    /\ result' = [NoResult EXCEPT !.status = "returned",
                                  !.response = response,
                                  !.summary = structured_summary(response),
                                  !.workbook = V0ExcelSheets(response)]
    /\ pc' = "done"
    /\ UNCHANGED <<inputs, pm, response, oracle_calls, path, answer, extracted, loops>>

(***************************************************************************)
(* reconcile_with_llm (src/reconcile_logic1.py): expense bills against     *)
(* savings-account entries.  Every match is the oracle's.                  *)
(***************************************************************************)
\* lines 967-969
valid_expenses == SelectValid(expenses)

RECURSIVE SelectFailed(_)
\* [e for e in expenses if e.get("parsing_failed")]
SelectFailed(records) ==
    IF records = <<>> THEN <<>>
    ELSE (IF Head(records).parsing_failed THEN <<Head(records)>> ELSE <<>>)
         \o SelectFailed(Tail(records))

parsing_failed_expenses == SelectFailed(expenses)

\* valid_statements of reconcile_with_llm
valid_savings == SelectValid(statements)

\* lines 971-974: one side has no valid record; only a message is returned
ExpNotEnough ==
    /\ task = "expense" /\ pc = "start"
    /\ valid_expenses = <<>> \/ valid_savings = <<>>
    /\ result' = [status |-> "message", response |-> NoExpenseResponse,
                  summary |-> <<TextLine("Not enough valid data for LLM reconciliation.")>>]
    /\ path' = "not_enough"
    /\ pc' = "done"
    /\ UNCHANGED <<inputs, pm, response, oracle_calls, answer, extracted, loops>>

\* the oracle's answer over the valid records (line 1069)
ExpOracleAnswer(mode, ix, as, bs) ==
    [expense_bills |-> IF mode = "silent" THEN <<>> ELSE as,
     saving_account_entries |-> IF mode = "silent" THEN <<>> ELSE bs,
     matched |-> [k \in DOMAIN ix.pairs |-> matched_entry(bs[ix.pairs[k][2]])],
     unmatched_expenses |-> Pick(as, ix.unA),
     unmatched_debits |-> Pick(bs, ix.unB \cup ix.reimb),
     dup_expenses |-> Pick(as, ix.dupA),
     dup_statements |-> Pick(bs, ix.dupB),
     pairing |-> ix.pairs]

ExpOracleResponse(mode) ==
    ExpOracleAnswer(mode,
                    OracleIndexes(mode, "expense", valid_expenses, valid_savings),
                    valid_expenses, valid_savings)

\* lines 1068-1069: the primary chain answers with parseable JSON
ExpOraclePrimary ==
    /\ task = "expense" /\ pc = "start"
    /\ valid_expenses # <<>> /\ valid_savings # <<>>
    /\ \E mode \in OracleModes :
          response' = ExpOracleResponse(mode) /\ answer' = mode
    /\ oracle_calls' = oracle_calls + 1
    /\ path' = "oracle"
    /\ pc' = "post"
    /\ UNCHANGED <<inputs, pm, result, extracted, loops>>

\* line 1070: the primary chain raises
ExpOraclePrimaryFails ==
    /\ task = "expense" /\ pc = "start"
    /\ valid_expenses # <<>> /\ valid_savings # <<>>
    /\ oracle_calls' = oracle_calls + 1
    /\ pc' = "fallback"
    /\ UNCHANGED <<inputs, pm, response, result, path, answer, extracted, loops>>

\* lines 1071-1093: the fallback chain answers and its text parses
ExpFallbackParsed ==
    /\ task = "expense" /\ pc = "fallback"
    /\ \E mode \in OracleModes :
          response' = ExpOracleResponse(mode) /\ answer' = mode
    /\ oracle_calls' = oracle_calls + 1
    /\ path' = "fallback_parsed"
    /\ pc' = "post"
    /\ UNCHANGED <<inputs, pm, result, extracted, loops>>

\* lines 1078-1098: the fallback chain raises, or its text holds no JSON
\* object, or no parser accepts it; only the error text is returned
ExpFallbackFails ==
    /\ task = "expense" /\ pc = "fallback"
    /\ oracle_calls' = oracle_calls + 1
    /\ result' = [status |-> "message", response |-> NoExpenseResponse,
                  summary |-> <<TextLine("LLM reconciliation failed")>>]
    /\ path' = "fallback_failed"
    /\ pc' = "done"
    /\ UNCHANGED <<inputs, pm, response, answer, extracted, loops>>

\* lines 1102-1106: the entry listed for a parse-failure marker
failed_entry(e) ==
    Rec(D(0, 0), e.amount, e.description \o <<" (parsing failed)">>)

\* lines 1100-1112
AddFailedAndClean(resp) ==
    LET failed == [k \in DOMAIN parsing_failed_expenses |->
                      failed_entry(parsing_failed_expenses[k])]
        unmatched == resp.unmatched_expenses \o failed
    IN [resp EXCEPT
          !.unmatched_expenses = Without(unmatched, Range(resp.dup_expenses))]

\* lines 1122-1130: title, one line per entry, blank line
ExpLogSection(title, entries) ==
    IF entries = <<>> THEN <<>>
    ELSE <<TitleLine(title)>>
         \o [k \in DOMAIN entries |-> EntryLine(entries[k])]
         \o <<BlankLine>>

\* lines 1121-1159
ExpSummary(resp) ==
    ExpLogSection("All Expense Bills:", resp.expense_bills)
    \o ExpLogSection("All Saving Account Entries:", resp.saving_account_entries)
    \o ExpLogSection("Matched Expense Bills:", resp.matched)
    \o ExpLogSection("Unmatched Expense Bills:", resp.unmatched_expenses)
    \o ExpLogSection("Unmatched Debits:", resp.unmatched_debits)
    \o ExpLogSection("Duplicate Expense Bills:", resp.dup_expenses)
    \o ExpLogSection("Duplicate Statement Entries:", resp.dup_statements)
    \o << TextLine("=== Totals ==="),
          CountLine("Total Expense Bills", Len(resp.expense_bills)),
          CountLine("Total Saving Account Entries", Len(resp.saving_account_entries)),
          CountLine("Total Matched Expenses", Len(resp.matched)),
          CountLine("Total Unmatched Expenses", Len(resp.unmatched_expenses)),
          CountLine("Total Unmatched Debits", Len(resp.unmatched_debits)),
          CountLine("Total Duplicate Expense Bills", Len(resp.dup_expenses)),
          CountLine("Total Duplicate Statement Entries", Len(resp.dup_statements)) >>

\* lines 1100-1178: add markers, clean, report, return
ExpFinish ==
    /\ task = "expense" /\ pc = "post"
    /\ result' = [status |-> "returned", response |-> AddFailedAndClean(response),
                  summary |-> ExpSummary(AddFailedAndClean(response))]
    /\ pc' = "done"
    /\ UNCHANGED <<inputs, pm, response, oracle_calls, path, answer, extracted, loops>>

(***************************************************************************)
(* Extractors.  A document is the list of its stripped, non-empty text     *)
(* lines; a line is a sequence of chunks.  Optional values (python None)   *)
(* are sequences of length at most one.                                    *)
(***************************************************************************)
\* chunks of the shape \d{1,2}-[A-Za-z]{3}-\d{4}
DateTokens == {"05-Jan-2024", "06-Jan-2024", "32-Jan-2024"}

\* chunks of the shape [0-9]+\.[0-9]{2}
AmountTokens == {"100.00", "250.50", "0.00"}

\* the day and month a date chunk spells
TokenDate(tok) ==
    CASE tok = "05-Jan-2024" -> D(1, 5)
      [] tok = "06-Jan-2024" -> D(1, 6)
      [] OTHER -> D(1, 32)

\* float(token), in cents
AmountValue(tok) ==
    CASE tok = "100.00" -> 10000
      [] tok = "250.50" -> 25050
      [] OTHER -> 0

\* lines 20-42: the first date chunk of the text, converted by strptime;
\* None when there is none or when strptime raises
parse_date(line) ==
    LET at == {k \in DOMAIN line : line[k] \in DateTokens}
    IN IF at = {} THEN <<>>
       ELSE LET k == CHOOSE x \in at : \A y \in at : x <= y
            IN IF strptime(TokenDate(line[k])) = 0 THEN <<>>
               ELSE <<TokenDate(line[k])>>

\* re.match(r"\d{1,2}-[A-Za-z]{3}-\d{4}", line)
IsDateLine(line) == line # <<>> /\ Head(line) \in DateTokens

\* re.search(r"inr\s*[0-9]+\.[0-9]{2}", line.lower())
IsInrAmountLine(line) ==
    \E k \in DOMAIN line :
        /\ Lower(line[k]) = "inr"
        /\ \/ k + 1 <= Len(line) /\ line[k + 1] \in AmountTokens
           \/ /\ k + 2 <= Len(line)
              /\ line[k + 1] = " "
              /\ line[k + 2] \in AmountTokens

\* re.search(r"([0-9]+\.[0-9]{2})", line): the first amount chunk, if any
FirstAmount(line) ==
    LET at == {k \in DOMAIN line : line[k] \in AmountTokens}
    IN IF at = {} THEN <<>>
       ELSE <<AmountValue(line[CHOOSE x \in at : \A y \in at : x <= y])>>

S3Categories == {<<"Travel">>, <<"Meals">>, <<"Utilities">>, <<"Office Supplies">>}

\* python truth value of an optional amount
AmountTruthy(a) == a # <<>> /\ a[1] # 0

S3Reason == <<"Could not extract complete expense entry">>

S3Start == [date |-> <<>>, description |-> <<>>, category |-> <<>>,
            amount |-> <<>>, entries |-> <<>>]

\* lines 315-324: the effect of one line on the fields in progress
S3Field(st, line) ==
    IF IsDateLine(line) THEN [st EXCEPT !.date = parse_date(line)]
    ELSE IF IsInrAmountLine(line)
         THEN (IF FirstAmount(line) # <<>>
               THEN [st EXCEPT !.amount = FirstAmount(line)] ELSE st)
    ELSE IF line \in S3Categories THEN [st EXCEPT !.category = <<line>>]
    ELSE IF st.date # <<>> /\ st.description = <<>>
         THEN [st EXCEPT !.description = <<line>>]
    ELSE st

\* lines 325-333: emit the record when every field is truthy, then reset
S3Emit(st) ==
    IF st.date # <<>> /\ st.description # <<>> /\ st.category # <<>>
       /\ AmountTruthy(st.amount)
    THEN [S3Start EXCEPT
            !.entries = Append(st.entries,
                [parsing_failed |-> FALSE, date |-> st.date,
                 description |-> st.description, category |-> st.category,
                 amount |-> st.amount, reason |-> <<>>])]
    ELSE st

RECURSIVE S3Loop(_, _, _)
\* the loop of lines 314-333, from line k on
S3Loop(lines, k, st) ==
    IF k > Len(lines) THEN st
    ELSE S3Loop(lines, k + 1, S3Emit(S3Field(st, lines[k])))

\* extract_expense_data_from_s3 without the marker block of lines 334-341
extract_expense_data_from_s3_no_marker(d) ==
    IF ~d.download THEN <<>>
    ELSE IF ~d.opens \/ ~d.readable THEN <<>>
    ELSE S3Loop(d.lines, 1, S3Start).entries

\* lines 301-342 (PdfReader is constructed inside the try of line 305)
extract_expense_data_from_s3(d) ==
    IF ~d.download THEN <<>>
    ELSE IF ~d.opens \/ ~d.readable THEN <<>>
    ELSE LET st == S3Loop(d.lines, 1, S3Start)
         IN IF st.entries = <<>>
            THEN <<[parsing_failed |-> TRUE, date |-> <<>>,
                    description |-> IF st.description = <<>>
                                    THEN <<FailedDesc>> ELSE st.description,
                    category |-> <<>>, amount |-> st.amount,
                    reason |-> S3Reason]>>
            ELSE st.entries

EDCategories ==
    {<<"Travel">>, <<"Meals">>, <<"Utilities">>, <<"Office Supplies">>,
     <<"Entertainment">>, <<"Software">>, <<"Hardware">>, <<"Miscellaneous">>}

EDReason ==
    <<"No complete expense entries found (missing one or more of ",
      "date", "/", "description", "/", "category", "/", "amount", ")">>

ReadErrorReason == <<"PDF read error">>

\* all(current_entry.values())
EDComplete(st) ==
    /\ st.date # <<>> /\ st.description # <<>> /\ st.category # <<>>
    /\ AmountTruthy(st.amount)

EDEntry(st) ==
    [parsing_failed |-> FALSE, date |-> st.date, description |-> st.description,
     category |-> st.category, amount |-> st.amount, reason |-> <<>>]

\* lines 77-85: a date line emits the entry in progress when it is complete,
\* then sets the date and clears the description
EDDate(st, line) ==
    IF IsDateLine(line)
    THEN [st EXCEPT
            !.entries = IF EDComplete(st) THEN Append(st.entries, EDEntry(st))
                        ELSE st.entries,
            !.date = parse_date(line),
            !.description = <<>>]
    ELSE st

\* lines 86-95 with an amount that is set once and then kept
EDAmount_first_wins(st, line) ==
    IF FirstAmount(line) # <<>> /\ st.amount = <<>>
    THEN [st EXCEPT !.amount = FirstAmount(line)]
    ELSE st

\* lines 86-95: any number with two decimals in the line sets the amount
EDAmount(st, line) ==
    IF FirstAmount(line) # <<>> THEN [st EXCEPT !.amount = FirstAmount(line)]
    ELSE st

\* lines 96-101
EDCategory(st, line) ==
    IF line \in EDCategories THEN [st EXCEPT !.category = <<line>>]
    ELSE IF st.date # <<>> /\ st.description = <<>>
         THEN [st EXCEPT !.description = <<line>>]
    ELSE st

RECURSIVE EDLoop(_, _, _)
\* the loop of lines 74-101, from line k on
EDLoop(lines, k, st) ==
    IF k > Len(lines) THEN st
    ELSE IF lines[k] = <<"PAGE_SEPARATOR">> THEN EDLoop(lines, k + 1, st)
    ELSE EDLoop(lines, k + 1,
                EDCategory(EDAmount(EDDate(st, lines[k]), lines[k]), lines[k]))

\* lines 46-51: PdfReader is constructed before the try of line 52; when the
\* file cannot be opened as a PDF its exception leaves extract_expense_data
extract_expense_data_raises(d) == ~d.opens

\* lines 52-110, for a document PdfReader opened (download is not part of
\* this extractor)
extract_expense_data(d) ==
    IF ~d.readable
    THEN <<[parsing_failed |-> TRUE, date |-> <<>>, description |-> <<>>,
            category |-> <<>>, amount |-> <<>>, reason |-> ReadErrorReason]>>
    ELSE LET st == EDLoop(d.lines, 1, S3Start)
             all == IF EDComplete(st) THEN Append(st.entries, EDEntry(st))
                    ELSE st.entries
         IN IF all = <<>>
            THEN <<[parsing_failed |-> TRUE, date |-> <<>>, description |-> <<>>,
                    category |-> <<>>, amount |-> <<>>, reason |-> EDReason]>>
            ELSE all

\* "Invoice Date: ..." texts of the shape [A-Za-z]+ \d{1,2}, \d{4}
InvoiceDateTokens == {"June 20, 2025", "Juno 20, 2025"}

\* "TOTAL: $..." texts of the shape [0-9,.]+
TotalTokens == {"27,033.29", "1.2.3"}

\* lines 385-413.  The document is given by what the three searches find:
\* number, date and total are optional texts.
extract_invoice_data_from_s3(d) ==
    IF ~d.download THEN <<>>
    ELSE IF ~d.readable THEN <<>>
    ELSE IF d.number # <<>> /\ d.date # <<>> /\ d.total # <<>>
         THEN (IF d.date[1] = "June 20, 2025" /\ d.total[1] = "27,033.29"
               THEN <<[parsing_failed |-> FALSE, date |-> <<D(6, 20)>>,
                       description |-> <<<<"Invoice", " ">> \o d.number[1]>>,
                       category |-> <<>>, amount |-> <<2703329>>,
                       reason |-> <<>>]>>
               ELSE <<>>)
    ELSE <<>>

\* the documents the extractors are given
LinePool ==
    { <<"05-Jan-2024">>, <<"06-Jan-2024">>, <<"INR", " ", "100.00">>,
      <<"Travel">>, <<"Cab Fare">> }

ExpenseDocs ==
    { [download |-> dl, opens |-> op, readable |-> rd, lines |-> ls] :
        dl \in BOOLEAN, op \in BOOLEAN, rd \in BOOLEAN,
        ls \in SeqsUpTo(LinePool, MaxLines) }

\* lines of bills that repeat a field, carry a zero amount or a date that is
\* no calendar date
AccumLinePool ==
    LinePool \cup { <<"32-Jan-2024">>, <<"INR", " ", "250.50">>, <<"INR", " ", "0.00">> }

\* documents that download, open and read
AccumDocs ==
    { [download |-> TRUE, opens |-> TRUE, readable |-> TRUE, lines |-> ls] :
        ls \in SeqsUpTo(AccumLinePool, MaxLines) }

InvoiceDocs ==
    { [download |-> dl, readable |-> rd, number |-> no, date |-> dt, total |-> tot] :
        dl \in BOOLEAN, rd \in BOOLEAN,
        no \in {<<>>, <<dKeyA>>},
        dt \in {<<>>} \cup {<<t>> : t \in InvoiceDateTokens},
        tot \in {<<>>} \cup {<<t>> : t \in TotalTokens} }

\* one extractor call on one document
Extract ==
    /\ pc = "start"
    /\ \/ /\ task = "extract_expense_s3"
          /\ extracted' = extract_expense_data_from_s3(doc)
          /\ path' = "returned"
       \/ /\ task = "extract_expense"
          /\ IF extract_expense_data_raises(doc)
             THEN extracted' = extracted /\ path' = "raised"
             ELSE extracted' = extract_expense_data(doc) /\ path' = "returned"
       \/ /\ task = "extract_invoice_s3"
          /\ extracted' = extract_invoice_data_from_s3(doc)
          /\ path' = "returned"
    /\ pc' = "done"
    /\ UNCHANGED <<inputs, pm, response, result, oracle_calls, answer, loops>>

InitExtract ==
    /\ \/ task = "extract_expense_s3" /\ doc \in ExpenseDocs \cup AccumDocs
       \/ task = "extract_expense" /\ doc \in {d \in ExpenseDocs : d.download} \cup AccumDocs
       \/ task = "extract_invoice_s3" /\ doc \in InvoiceDocs
    /\ pc = "start"
    /\ invoices = <<>>
    /\ current_statements = <<>>
    /\ expenses = <<>>
    /\ statements = <<>>
    /\ pm = NoPreMatch
    /\ response = NoResponse
    /\ result = NoResult
    /\ oracle_calls = 0
    /\ path = "none"
    /\ answer = "none"
    /\ extracted = <<>>
    /\ keys = <<>>
    /\ done_keys = 0
    /\ statement_keys = <<>>
    /\ done_statement_keys = 0
    /\ all_statements = <<>>

(***************************************************************************)
(* calculate_savings_metrics (lines 888-915; src/reconcile_logic.py lines  *)
(* 1471-1498): the counts read back from the summary text.                 *)
(***************************************************************************)
NoMetrics ==
    [matched_with_bank_statement |-> 0, unmatched_expense_bills |-> 0,
     unmatched_bank_debits |-> 0]

\* the dict sections of lines 897-902: the metric a title line opens, or
\* "none" for a line that is no key of the dict
SectionOf(text) ==
    CASE text = "Matched Expense Bills:" -> "matched_with_bank_statement"
      [] text = "Unmatched Expense Bills:" -> "unmatched_expense_bills"
      [] text = "Unmatched Debits:" -> "unmatched_bank_debits"
      [] text = "Unmatched Charges:" -> "unmatched_bank_debits"
      [] OTHER -> "none"

RECURSIVE MetricsLoop(_, _, _, _)
\* the loop of lines 904-910, from line k on
MetricsLoop(lines, k, current_section, metrics) ==
    IF k > Len(lines) THEN metrics
    ELSE IF lines[k].kind = "title" /\ SectionOf(lines[k].text) # "none"
         THEN MetricsLoop(lines, k + 1, SectionOf(lines[k].text), metrics)
    ELSE IF lines[k].kind = "entry" /\ current_section # "none"
         THEN MetricsLoop(lines, k + 1, current_section,
                          [metrics EXCEPT ![current_section] = @ + 1])
    ELSE MetricsLoop(lines, k + 1, current_section, metrics)

\* lines 888-915 without the derived total of lines 911-914
calculate_savings_metrics(summary) ==
    IF summary = <<>> THEN NoMetrics
    ELSE MetricsLoop(summary, 1, "none", NoMetrics)

(***************************************************************************)
(* The statement extractors of the multi-document runs.                    *)
(***************************************************************************)
S3StatementCategories ==
    {<<"Travel">>, <<"Meals">>, <<"Utilities">>, <<"Office Supplies">>,
     <<"Cash">>, <<"Personal">>, <<"Charges">>}

\* line.lower() in ["debit", "credit", "fee"]
IsTypeLine(line) == Len(line) = 1 /\ Lower(line[1]) \in {"debit", "credit", "fee"}

\* re.match(r"-?[0-9]+\.[0-9]{2}$", line)
IsBareAmountLine(line) ==
    \/ Len(line) = 1 /\ line[1] \in AmountTokens
    \/ Len(line) = 2 /\ line[1] = "-" /\ line[2] \in AmountTokens

\* float(line), in cents
BareAmount(line) ==
    IF Len(line) = 1 THEN AmountValue(line[1]) ELSE 0 - AmountValue(line[2])

StStart == [date |-> <<>>, description |-> <<>>, category |-> <<>>,
            type |-> <<>>, amount |-> <<>>, entries |-> <<>>]

\* lines 358-367: the effect of one line on the fields in progress
StField(st, line) ==
    IF IsDateLine(line) THEN [st EXCEPT !.date = parse_date(line)]
    ELSE IF line \in S3StatementCategories THEN [st EXCEPT !.category = <<line>>]
    ELSE IF IsTypeLine(line) THEN [st EXCEPT !.type = <<Lower(line[1])>>]
    ELSE IF IsBareAmountLine(line) THEN [st EXCEPT !.amount = <<BareAmount(line)>>]
    ELSE IF st.date # <<>> /\ st.description = <<>>
         THEN [st EXCEPT !.description = <<line>>]
    ELSE st

\* lines 368-376: emit the record when every field is set, then reset
StEmit(st) ==
    IF st.date # <<>> /\ st.description # <<>> /\ st.category # <<>>
       /\ st.type # <<>> /\ st.amount # <<>>
    THEN [StStart EXCEPT
            !.entries = Append(st.entries,
                [parsing_failed |-> FALSE, date |-> st.date,
                 description |-> st.description, category |-> st.category,
                 type |-> st.type, amount |-> st.amount, reason |-> <<>>])]
    ELSE st

RECURSIVE StLoop(_, _, _)
\* the loop of lines 357-376, from line k on
StLoop(lines, k, st) ==
    IF k > Len(lines) THEN st
    ELSE StLoop(lines, k + 1, StEmit(StField(st, lines[k])))

StatementReason == <<"Could not extract complete statement entry">>

StatementMarker ==
    [parsing_failed |-> TRUE, date |-> <<>>, description |-> <<>>,
     category |-> <<>>, type |-> <<>>, amount |-> <<>>,
     reason |-> StatementReason]

\* lines 344-383
extract_statement_entries_from_s3(d) ==
    IF ~d.download THEN <<>>
    ELSE IF ~d.opens \/ ~d.readable THEN <<>>
    ELSE IF StLoop(d.lines, 1, StStart).entries = <<>> THEN <<StatementMarker>>
    ELSE StLoop(d.lines, 1, StStart).entries

\* texts of the shape \d{4}-\d{2}-\d{2}
IsoDateTokens == {"2025-06-20", "2025-06-22"}

\* re.match(r"^(\d{4}-\d{2}-\d{2})\s+(.+?)\s+([\d,]+\.\d{2})\s+([\d,]+\.\d{2})$", line):
\* a row is date, description, amount and balance, separated by blanks
IsRow(line) ==
    /\ Len(line) = 7
    /\ line[1] \in IsoDateTokens
    /\ line[2] = " " /\ line[4] = " " /\ line[6] = " "
    /\ line[3] \notin AmountTokens \cup {" "}
    /\ line[5] \in AmountTokens /\ line[7] \in AmountTokens

\* lines 434-446: the entry of a row
RowEntry(line) ==
    [parsing_failed |-> FALSE, date |-> <<line[1]>>, description |-> <<line[3]>>,
     amount |-> <<AmountValue(line[5])>>, balance |-> <<AmountValue(line[7])>>,
     type |-> <<"credit">>, reason |-> <<>>]

RECURSIVE RowEntries(_)
\* the loop of lines 429-446
RowEntries(lines) ==
    IF lines = <<>> THEN <<>>
    ELSE (IF IsRow(Head(lines)) THEN <<RowEntry(Head(lines))>> ELSE <<>>)
         \o RowEntries(Tail(lines))

CurrentMarker ==
    [parsing_failed |-> TRUE, date |-> <<>>, description |-> <<>>,
     amount |-> <<>>, balance |-> <<>>, type |-> <<>>,
     reason |-> StatementReason]

\* lines 415-454
extract_current_account_entries_from_s3(d) ==
    IF ~d.download THEN <<>>
    ELSE IF ~d.opens \/ ~d.readable THEN <<>>
    ELSE IF RowEntries(d.lines) = <<>> THEN <<CurrentMarker>>
    ELSE RowEntries(d.lines)

(***************************************************************************)
(* The extraction loops of reconcile_preview (lines 863-878) and of        *)
(* reconcile_current_account (lines 808-820): every key of the first       *)
(* folder is handed to its extractor and what it returns is appended to    *)
(* the first list (the variable extracted), then the same for the          *)
(* statement keys and all_statements; after the two loops the              *)
(* reconciliation is called with the two lists (lines 882 and 828).        *)
(***************************************************************************)
\* a complete bill
GoodLines == << <<"05-Jan-2024">>, <<"Cab Fare">>, <<"Travel">>, <<"INR", " ", "100.00">> >>

\* a bill without amount
PartLines == << <<"06-Jan-2024">>, <<"Travel">> >>

\* the documents of the expense folder
FolderDocs ==
    { [download |-> TRUE, opens |-> TRUE, readable |-> TRUE, lines |-> GoodLines],
      [download |-> TRUE, opens |-> TRUE, readable |-> TRUE, lines |-> PartLines],
      [download |-> TRUE, opens |-> TRUE, readable |-> FALSE, lines |-> <<>>],
      [download |-> TRUE, opens |-> FALSE, readable |-> FALSE, lines |-> <<>>],
      [download |-> FALSE, opens |-> FALSE, readable |-> FALSE, lines |-> <<>>] }

\* a complete savings entry, and a second one
SavingLines ==
    << <<"05-Jan-2024">>, <<"ATM">>, <<"Cash">>, <<"Debit">>, <<"100.00">> >>

SavingLinesB ==
    << <<"06-Jan-2024">>, <<"Cab Fare">>, <<"Travel">>, <<"debit">>, <<"-", "250.50">> >>

\* the savings statements of the statement folder
SavingDocs ==
    { [download |-> TRUE, opens |-> TRUE, readable |-> TRUE, lines |-> SavingLines],
      [download |-> TRUE, opens |-> TRUE, readable |-> TRUE,
       lines |-> SavingLines \o SavingLinesB],
      [download |-> TRUE, opens |-> TRUE, readable |-> TRUE, lines |-> PartLines],
      [download |-> FALSE, opens |-> FALSE, readable |-> FALSE, lines |-> <<>>] }

\* the documents of the invoice folder
InvoiceFolderDocs ==
    { [download |-> TRUE, readable |-> TRUE, number |-> <<dKeyA>>,
       date |-> <<"June 20, 2025">>, total |-> <<"27,033.29">>],
      [download |-> TRUE, readable |-> TRUE, number |-> <<dKeyA>>,
       date |-> <<>>, total |-> <<"27,033.29">>],
      [download |-> TRUE, readable |-> FALSE, number |-> <<>>,
       date |-> <<>>, total |-> <<>>],
      [download |-> FALSE, readable |-> FALSE, number |-> <<>>,
       date |-> <<>>, total |-> <<>>] }

RowA == <<"2025-06-20", " ", "Settle INV-A", " ", "100.00", " ", "250.50">>

RowB == <<"2025-06-22", " ", "Misc", " ", "250.50", " ", "0.00">>

\* the current-account statements of the statement folder
CurrentDocs ==
    { [download |-> TRUE, opens |-> TRUE, readable |-> TRUE, lines |-> <<RowA>>],
      [download |-> TRUE, opens |-> TRUE, readable |-> TRUE,
       lines |-> << <<"Statement">>, RowB, RowA >>],
      [download |-> TRUE, opens |-> TRUE, readable |-> TRUE,
       lines |-> << <<"Statement">> >>],
      [download |-> TRUE, opens |-> FALSE, readable |-> FALSE, lines |-> <<>>] }

InitPreview ==
    /\ \/ /\ task = "preview"
          /\ keys \in SeqsUpTo(FolderDocs, MaxDocs)
          /\ statement_keys \in SeqsUpTo(SavingDocs, MaxDocs)
       \/ /\ task = "current_account"
          /\ keys \in SeqsUpTo(InvoiceFolderDocs, MaxDocs)
          /\ statement_keys \in SeqsUpTo(CurrentDocs, MaxDocs)
    /\ pc = "extract"
    /\ done_keys = 0
    /\ done_statement_keys = 0
    /\ all_statements = <<>>
    /\ invoices = <<>>
    /\ current_statements = <<>>
    /\ expenses = <<>>
    /\ statements = <<>>
    /\ doc = NoDoc
    /\ pm = NoPreMatch
    /\ response = NoResponse
    /\ result = NoResult
    /\ oracle_calls = 0
    /\ path = "none"
    /\ answer = "none"
    /\ extracted = <<>>

\* lines 865-867: one turn of the expense loop
PreviewExtract ==
    /\ task = "preview" /\ pc = "extract"
    /\ done_keys < Len(keys)
    /\ extracted' = extracted \o extract_expense_data_from_s3(keys[done_keys + 1])
    /\ done_keys' = done_keys + 1
    /\ UNCHANGED <<inputs, pc, pm, response, result, oracle_calls, path, answer,
                   done_statement_keys, all_statements>>

\* lines 868-874: the expense loop is over; the savings statements are listed
PreviewListSavings ==
    /\ task = "preview" /\ pc = "extract"
    /\ done_keys = Len(keys)
    /\ pc' = "extract_statements"
    /\ UNCHANGED <<inputs, pm, response, result, oracle_calls, path, answer,
                   extracted, loops>>

\* lines 875-877: one turn of the savings loop
PreviewExtractSavings ==
    /\ task = "preview" /\ pc = "extract_statements"
    /\ done_statement_keys < Len(statement_keys)
    /\ all_statements' = all_statements
          \o extract_statement_entries_from_s3(statement_keys[done_statement_keys + 1])
    /\ done_statement_keys' = done_statement_keys + 1
    /\ UNCHANGED <<inputs, pc, pm, response, result, oracle_calls, path, answer,
                   extracted, done_keys>>

\* reconcile_with_llm called from inside the savings loop
PreviewReconcile_early ==
    /\ task = "preview" /\ pc = "extract_statements"
    /\ pc' = "reconcile"
    /\ UNCHANGED <<inputs, pm, response, result, oracle_calls, path, answer,
                   extracted, loops>>

\* lines 878-882: the loops are over and reconcile_with_llm is called
PreviewReconcile ==
    /\ task = "preview" /\ pc = "extract_statements"
    /\ done_statement_keys = Len(statement_keys)
    /\ pc' = "reconcile"
    /\ UNCHANGED <<inputs, pm, response, result, oracle_calls, path, answer,
                   extracted, loops>>

\* lines 810-812: one turn of the invoice loop
CurrentExtractInvoices ==
    /\ task = "current_account" /\ pc = "extract"
    /\ done_keys < Len(keys)
    /\ extracted' = extracted \o extract_invoice_data_from_s3(keys[done_keys + 1])
    /\ done_keys' = done_keys + 1
    /\ UNCHANGED <<inputs, pc, pm, response, result, oracle_calls, path, answer,
                   done_statement_keys, all_statements>>

\* lines 813-816: the invoice loop is over; the current statements are listed
CurrentListStatements ==
    /\ task = "current_account" /\ pc = "extract"
    /\ done_keys = Len(keys)
    /\ pc' = "extract_statements"
    /\ UNCHANGED <<inputs, pm, response, result, oracle_calls, path, answer,
                   extracted, loops>>

\* lines 817-819: one turn of the current-account loop
CurrentExtractStatements ==
    /\ task = "current_account" /\ pc = "extract_statements"
    /\ done_statement_keys < Len(statement_keys)
    /\ all_statements' = all_statements
          \o extract_current_account_entries_from_s3(
                statement_keys[done_statement_keys + 1])
    /\ done_statement_keys' = done_statement_keys + 1
    /\ UNCHANGED <<inputs, pc, pm, response, result, oracle_calls, path, answer,
                   extracted, done_keys>>

\* lines 820-828: the loops are over and reconcile_invoices_with_llm is called
CurrentReconcile ==
    /\ task = "current_account" /\ pc = "extract_statements"
    /\ done_statement_keys = Len(statement_keys)
    /\ pc' = "reconcile"
    /\ UNCHANGED <<inputs, pm, response, result, oracle_calls, path, answer,
                   extracted, loops>>

Init == InitInvoice \/ InitPreMatch \/ InitInvoiceV0 \/ InitExpense \/ InitExtract \/ InitPreview

Next ==
    \/ PreMatch
    \/ DeterministicPath
    \/ OraclePrimary
    \/ OraclePrimaryFails
    \/ FallbackParsed
    \/ FallbackNoJson
    \/ FallbackBadJson
    \/ FallbackRaises
    \/ Finish
    \/ ExportCurrentAccount
    \/ V0OraclePrimary
    \/ V0OraclePrimaryFails
    \/ V0FallbackParsed
    \/ V0FallbackNoJson
    \/ V0FallbackBadJson
    \/ V0FallbackRaises
    \/ V0Finish
    \/ ExpNotEnough
    \/ ExpOraclePrimary
    \/ ExpOraclePrimaryFails
    \/ ExpFallbackParsed
    \/ ExpFallbackFails
    \/ ExpFinish
    \/ Extract
    \/ PreviewExtract
    \/ PreviewListSavings
    \/ PreviewExtractSavings
    \/ PreviewReconcile
    \/ CurrentExtractInvoices
    \/ CurrentListStatements
    \/ CurrentExtractStatements
    \/ CurrentReconcile

Spec == Init /\ [][Next]_vars

(***************************************************************************)
(* Properties of reconcile_invoices_with_llm.                              *)
(***************************************************************************)
InvoiceReturned ==
    task = "invoice" /\ pc = "done" /\ result.status = "returned"

BucketCount(r) ==
    2 * Len(r.matched) + Len(r.unmatched_invoices) + Len(r.unmatched_payments)
    + Len(r.reimbursements) + Len(r.dup_invoices) + Len(r.dup_statements)

\* number of positions of s holding v
Occurrences(s, v) == Cardinality({k \in DOMAIN s : s[k] = v})

\* C1: on the deterministic path and on the oracle-failure fallback paths the
\* buckets of the returned result add up: 2*|matched| + |unmatched_invoices|
\* + |unmatched_payments| + |reimbursements| + |duplicates| equals the number
\* of valid invoices plus the number of valid statements.
C1_Conservation ==
    (InvoiceReturned /\ path \in {"deterministic", "fallback_nojson", "fallback_badjson"})
        => BucketCount(result.response)
             = Len(valid_invoices) + Len(valid_statements)

\* C2: no silent drop.  On the path where the code alone fills the buckets,
\* every valid statement is, as often as it was passed in, either consumed by
\* a match or listed in unmatched_payments, reimbursements or duplicates; the
\* same for every valid invoice.
C2_NoSilentDrop ==
    (InvoiceReturned /\ path = "deterministic") =>
        LET r == result.response
            usedB == {r.pairing[k][2] : k \in DOMAIN r.pairing}
            usedA == {r.pairing[k][1] : k \in DOMAIN r.pairing}
        IN /\ \A v \in Range(valid_statements) :
                Occurrences(valid_statements, v)
                  = Cardinality({j \in usedB : valid_statements[j] = v})
                    + Occurrences(r.unmatched_payments, v)
                    + Occurrences(r.reimbursements, v)
                    + Occurrences(r.dup_statements, v)
           /\ \A v \in Range(valid_invoices) :
                Occurrences(valid_invoices, v)
                  = Cardinality({i \in usedA : valid_invoices[i] = v})
                    + Occurrences(r.unmatched_invoices, v)
                    + Occurrences(r.dup_invoices, v)

\* no index occurs twice on either side of a list of index pairs
OneToOne(pairs) ==
    \A k, h \in DOMAIN pairs :
        k # h => pairs[k][1] # pairs[h][1] /\ pairs[k][2] # pairs[h][2]

\* C3: matches are one-to-one, in what pre_match_invoices_payments returns
\* and in the matched list of the returned result: no invoice and no
\* statement entry takes part in two matches.
C3_OneToOne ==
    /\ (task = "invoice" /\ pc # "start") => OneToOne(pm.pairing)
    /\ InvoiceReturned =>
          /\ OneToOne(result.response.pairing)
          /\ Len(result.response.matched) = Len(result.response.pairing)

\* C4: zero date tolerance: the matcher never pairs an invoice and a statement
\* entry whose dates differ.
C4_ZeroDateTolerance ==
    (task = "invoice" /\ pc # "start") =>
        \A k \in DOMAIN pm.pairing :
            valid_invoices[pm.pairing[k][1]].date
              = valid_statements[pm.pairing[k][2]].date

\* the classifier's rule of section 4.4
IsReimbursement(b) == b.amount < 0 \/ HasKeyword(b.description)

\* C6: on the path where all invoices were pre-matched and no oracle is
\* called, a statement entry left unmatched is in reimbursements iff its
\* amount is negative or its description has a refund keyword, and in
\* unmatched_payments otherwise.
C6_Classifier ==
    (InvoiceReturned /\ path = "deterministic") =>
        \A j \in DOMAIN valid_statements :
            j \notin pm.matched_payment_idxs =>
                LET b == valid_statements[j]
                IN /\ IsReimbursement(b) =>
                        /\ b \in Range(result.response.reimbursements)
                        /\ b \notin Range(result.response.unmatched_payments)
                   /\ ~IsReimbursement(b) =>
                        /\ b \in Range(result.response.unmatched_payments)
                        /\ b \notin Range(result.response.reimbursements)

\* either variant of reconcile_invoices_with_llm handed a result back
EitherReturned ==
    task \in {"invoice", "invoice_v0"} /\ pc = "done" /\ result.status = "returned"

HasMismatchLine(summary) ==
    \E k \in DOMAIN summary : summary[k].kind = "mismatch"

CountsAddUp(r) ==
    BucketCount(r) = Len(valid_invoices) + Len(valid_statements)

\* C11: the summary handed back holds a count-mismatch line exactly when the
\* bucket counts of the result do not add up to the number of valid invoices
\* plus the number of valid statements.
C11_MismatchSurfaced ==
    EitherReturned =>
        (HasMismatchLine(result.summary) <=> ~CountsAddUp(result.response))

\* the primary call raised and the fallback call raised or gave text that
\* does not parse
OracleFailed ==
    path \in {"fallback_nojson", "fallback_badjson", "fallback_raised"}

\* every valid record is, as often as it was passed in, consumed by a pair of
\* r.pairing or listed in the unmatched bucket of its side
AllPlaced(r) ==
    LET usedA == {r.pairing[k][1] : k \in DOMAIN r.pairing}
        usedB == {r.pairing[k][2] : k \in DOMAIN r.pairing}
    IN /\ Len(r.matched) = Len(r.pairing)
       /\ \A v \in Range(valid_invoices) :
             Occurrences(valid_invoices, v)
               = Cardinality({i \in usedA : valid_invoices[i] = v})
                 + Occurrences(r.unmatched_invoices, v)
       /\ \A v \in Range(valid_statements) :
             Occurrences(valid_statements, v)
               = Cardinality({j \in usedB : valid_statements[j] = v})
                 + Occurrences(r.unmatched_payments, v)

\* C12: when the oracle fails, reconcile_invoices_with_llm still returns to
\* its caller, and the result places every valid invoice and every valid
\* statement: matched by the pre-match, or unmatched.
C12_OracleIndependence ==
    (task \in {"invoice", "invoice_v0"} /\ pc = "done" /\ OracleFailed) =>
        /\ result.status = "returned"
        /\ AllPlaced(result.response)

SixSheets ==
    << "matched", "unmatched_invoices", "unmatched_payments", "reimbursements",
       "duplicates_invoices", "duplicates_statements" >>

\* the six buckets of a response, in the order of SixSheets
Buckets(r) ==
    << r.matched, r.unmatched_invoices, r.unmatched_payments, r.reimbursements,
       r.dup_invoices, r.dup_statements >>

\* the workbook has exactly the six bucket sheets, and a sheet holds the
\* placeholder row exactly when its bucket is empty
FixedSheetSet(wb, r) ==
    /\ Len(wb) = 6
    /\ \A k \in 1..6 :
          /\ wb[k].name = SixSheets[k]
          /\ wb[k].placeholder <=> (Len(Buckets(r)[k]) = 0)

\* C13: once reconcile_current_account has exported a result, both workbooks
\* written from it hold exactly the six bucket sheets, an empty bucket as a
\* sheet with the placeholder row.
C13_FixedSheetSet ==
    (task = "invoice" /\ pc = "exported") =>
        /\ FixedSheetSet(result.workbook, result.response)
        /\ FixedSheetSet(result.current_account, result.response)

SectionTitles ==
    << "Matched:", "Unmatched Invoices:", "Unmatched Payments:",
       "Reimbursements:", "Duplicates in Invoices:", "Duplicates in Statements:" >>

RECURSIVE EntriesFrom(_, _)
\* the texts of the run of entry lines starting at line k
EntriesFrom(summary, k) ==
    IF k > Len(summary) THEN <<>>
    ELSE IF summary[k].kind # "entry" THEN <<>>
    ELSE <<summary[k].entry[1]>> \o EntriesFrom(summary, k + 1)

\* the texts of the entry lines listed under a section title
SectionEntries(summary, title) ==
    LET at == {k \in DOMAIN summary :
                  summary[k].kind = "title" /\ summary[k].text = title}
    IN IF at = {} THEN <<>>
       ELSE EntriesFrom(summary, (CHOOSE k \in at : TRUE) + 1)

\* C14: every section of the summary built by log_section lists the records
\* of its bucket, one line per record, in the order of the bucket list; equal
\* records give equal lines, as many as there are records.
C14_OneLinePerRecord ==
    (InvoiceReturned /\ path # "fallback_nojson") =>
        \A k \in 1..6 :
            LET bucket == Buckets(result.response)[k]
                listed == SectionEntries(result.summary, SectionTitles[k])
            IN /\ Len(listed) = Len(bucket)
               /\ \A i \in DOMAIN bucket : listed[i] = entry_key(bucket[i])

(***************************************************************************)
(* Properties of reconcile_with_llm.                                       *)
(***************************************************************************)
ExpenseReturned ==
    task = "expense" /\ pc = "done" /\ result.status = "returned"

\* C7: duplicate groups.  When the oracle reports later occurrences as
\* duplicates and first occurrences as matched or unmatched, then after the
\* removal of duplicates from unmatched_expenses every expense value whose
\* first occurrence was not matched is listed exactly once in
\* unmatched_expenses, and no later occurrence is listed in addition.
C7_CanonicalKept ==
    (ExpenseReturned /\ answer = "strict") =>
        LET r == result.response
            usedA == {r.pairing[k][1] : k \in DOMAIN r.pairing}
        IN \A i \in DOMAIN valid_expenses :
              i \notin LaterOccurrences(valid_expenses) =>
                  Occurrences(r.unmatched_expenses, valid_expenses[i])
                    = IF i \in usedA THEN 0 ELSE 1

\* C10: empty input.  When either side has no valid record the run ends
\* without consulting the oracle, and the returned result lists every valid
\* record of the other side as unmatched.
C10_EmptyInput ==
    /\ (task = "invoice" /\ pc = "done"
        /\ (valid_invoices = <<>> \/ valid_statements = <<>>)) =>
            /\ oracle_calls = 0
            /\ result.status = "returned"
            /\ result.response.unmatched_invoices = valid_invoices
            /\ result.response.unmatched_payments = valid_statements
    /\ (task = "expense" /\ pc = "done"
        /\ (valid_expenses = <<>> \/ valid_savings = <<>>)) =>
            /\ oracle_calls = 0
            /\ result.response.unmatched_expenses = valid_expenses
            /\ result.response.unmatched_debits = valid_savings

(***************************************************************************)
(* Properties of both reconciliations.                                     *)
(***************************************************************************)
\* a listed entry that stands for a parse-failure marker
IsFailedEntry(e) ==
    \/ e.parsing_failed
    \/ e.description # <<>> /\ e.description[Len(e.description)] = " (parsing failed)"

FailedListed(bucket) ==
    Cardinality({k \in DOMAIN bucket : IsFailedEntry(bucket[k])})

\* C15: every parse-failure marker passed in, on either side, is represented
\* in the result handed back: the unmatched bucket of its side lists one
\* entry per marker.
C15_MarkersCarried ==
    /\ (task = "expense" /\ pc = "done") =>
          /\ FailedListed(result.response.unmatched_expenses)
                = Len(parsing_failed_expenses)
          /\ FailedListed(result.response.unmatched_debits)
                = Len(SelectFailed(statements))
    /\ (task = "invoice" /\ pc = "done") =>
          /\ FailedListed(result.response.unmatched_invoices)
                = Len(SelectFailed(invoices))
          /\ FailedListed(result.response.unmatched_payments)
                = Len(SelectFailed(current_statements))

(***************************************************************************)
(* Properties of the extractors.                                           *)
(***************************************************************************)
ExtractTasks == {"extract_expense_s3", "extract_expense", "extract_invoice_s3"}

\* the extractor returned a list to its caller
Extracted == task \in ExtractTasks /\ pc = "done" /\ path = "returned"

\* C8: parse-failure marker.  Every extractor returns, for every document,
\* either one or more complete records and no marker, or exactly one record
\* with parsing_failed = TRUE; it never returns an empty list.
C8_MarkerOrRecords ==
    Extracted =>
        /\ extracted # <<>>
        /\ \/ \A k \in DOMAIN extracted : ~extracted[k].parsing_failed
           \/ Len(extracted) = 1 /\ extracted[1].parsing_failed

\* a readable document with a date line and a category line, no amount line
DateCategoryNoAmount ==
    /\ task \in {"extract_expense_s3", "extract_expense"}
    /\ doc.download /\ doc.opens /\ doc.readable
    /\ \E k \in DOMAIN doc.lines : IsDateLine(doc.lines[k])
    /\ \E k \in DOMAIN doc.lines : doc.lines[k] \in S3Categories
    /\ \A k \in DOMAIN doc.lines : FirstAmount(doc.lines[k]) = <<>>

FieldNames == {"date", "description", "category", "amount"}

\* the fields a reason text names
CitedFields(reason) == Range(reason) \cap FieldNames

DocFails(d) ==
    \/ ~d.download \/ ~d.opens \/ ~d.readable
    \/ S3Loop(d.lines, 1, S3Start).entries = <<>>

\* C16: a failing document does not abort the run.  When the extraction loop
\* is over and the reconciliation is started, every document was handed to
\* the extractor and every failing document left one parse-failure marker
\* among the extracted records; and no exception leaves a per-document
\* extractor.
C16_FailingDocument ==
    /\ (task = "preview" /\ pc = "reconcile") =>
          /\ done_keys = Len(keys)
          /\ Cardinality({k \in DOMAIN extracted : extracted[k].parsing_failed})
                = Cardinality({k \in DOMAIN keys : DocFails(keys[k])})
    /\ (task \in ExtractTasks /\ pc = "done") => path # "raised"

(***************************************************************************)
(* Properties of pre_match_invoices_payments.                              *)
(***************************************************************************)
PreMatched == task \in {"invoice", "pre_match"} /\ pc # "start"

\* the test the code applies to a pair of records, taken by itself: dates
\* that parse, amounts within the tolerance, the invoice number inside the
\* statement description, dates within the window
MatchingPredicate(inv, pay) ==
    /\ strptime(inv.date) # 0 /\ strptime(pay.date) # 0
    /\ ~DiffAbove(inv.amount, pay.amount)
    /\ extract_invoice_no(inv.description) # NoKey
    /\ Contains(pay.description, extract_invoice_no(inv.description))
    /\ Abs(strptime(pay.date) - strptime(inv.date)) <= date_window

RECURSIVE FirstFit(_, _, _, _, _)
\* the pairs first-fit makes from invoice i on: the lowest unconsumed entry
\* that satisfies the predicate, if there is one
FirstFit(invs, i, pays, used, acc) ==
    IF i > Len(invs) THEN acc
    ELSE LET cand == {j \in DOMAIN pays :
                         j \notin used /\ MatchingPredicate(invs[i], pays[j])}
         IN IF cand = {} THEN FirstFit(invs, i + 1, pays, used, acc)
            ELSE LET j == CHOOSE x \in cand : \A y \in cand : x <= y
                 IN FirstFit(invs, i + 1, pays, used \cup {j},
                             Append(acc, <<i, j>>))

\* C17: first-fit order.  The pairs pre_match_invoices_payments makes are
\* those of first-fit over the invoices in list order, each with the
\* lowest-index unconsumed entry satisfying the predicate, and matched_pairs
\* lists the paired entries in that order.
C17_FirstFit ==
    PreMatched =>
        /\ pm.pairing = FirstFit(valid_invoices, 1, valid_statements, {}, <<>>)
        /\ pm.matched_pairs
             = [k \in DOMAIN pm.pairing |->
                   matched_entry(valid_statements[pm.pairing[k][2]])]

\* C18: maximality.  When pre_match_invoices_payments has returned, no
\* unmatched invoice and unmatched statement entry satisfy the predicate.
C18_Maximal ==
    PreMatched =>
        \A i \in DOMAIN valid_invoices, j \in DOMAIN valid_statements :
            (i \notin pm.matched_invoice_idxs /\ j \notin pm.matched_payment_idxs)
                => ~MatchingPredicate(valid_invoices[i], valid_statements[j])

\* C19: amount predicate.  Every pair the pre-match makes has equal amounts
\* in cents; amounts one cent apart are not paired.
C19_AmountExact ==
    PreMatched =>
        \A k \in DOMAIN pm.pairing :
            valid_invoices[pm.pairing[k][1]].amount
              = valid_statements[pm.pairing[k][2]].amount

\* the description-key rule: the invoice number occurs in the statement
\* description ignoring case or, when the invoice has no number, the two
\* descriptions are equal ignoring case
DescriptionKeyOk(inv, pay) ==
    IF extract_invoice_no(inv.description) # NoKey
    THEN Contains(LowerText(pay.description),
                  LowerText(extract_invoice_no(inv.description)))
    ELSE LowerText(inv.description) = LowerText(pay.description)

\* C20: description key.  Every pair the pre-match makes satisfies the
\* description-key rule, and for one invoice and one statement entry of the
\* same date and amount the pair is made whenever the rule is satisfied.
C20_DescriptionKey ==
    PreMatched =>
        /\ \A k \in DOMAIN pm.pairing :
              DescriptionKeyOk(valid_invoices[pm.pairing[k][1]],
                               valid_statements[pm.pairing[k][2]])
        /\ (/\ Len(valid_invoices) = 1 /\ Len(valid_statements) = 1
            /\ valid_invoices[1].date = valid_statements[1].date
            /\ valid_invoices[1].amount = valid_statements[1].amount
            /\ strptime(valid_invoices[1].date) # 0
            /\ DescriptionKeyOk(valid_invoices[1], valid_statements[1]))
              => pm.pairing = <<<<1, 1>>>>

(***************************************************************************)
(* The field accumulators, line by line.                                   *)
(***************************************************************************)
\* the runs of the two expense extractors that went through the lines
Accumulated ==
    /\ task \in {"extract_expense_s3", "extract_expense"}
    /\ pc = "done" /\ path = "returned"
    /\ doc.download /\ doc.opens /\ doc.readable

\* the fields in progress of extract_expense_data_from_s3 before line k
S3Before(k) == S3Loop(SubSeq(doc.lines, 1, k - 1), 1, S3Start)

\* the body of the loop of extract_expense_data on one line
EDStep(st, line) ==
    IF line = <<"PAGE_SEPARATOR">> THEN st
    ELSE EDCategory(EDAmount(EDDate(st, line), line), line)

\* the fields in progress of extract_expense_data before line k
EDBefore(k) == EDLoop(SubSeq(doc.lines, 1, k - 1), 1, S3Start)

\* the fields before line k, and after it before any emission of that line
FieldsBefore(k) == IF task = "extract_expense_s3" THEN S3Before(k) ELSE EDBefore(k)

FieldsAfter(k) ==
    IF task = "extract_expense_s3" THEN S3Field(S3Before(k), doc.lines[k])
    ELSE EDStep(EDBefore(k), doc.lines[k])

AllFieldsSet(st) ==
    st.date # <<>> /\ st.description # <<>> /\ st.category # <<>> /\ st.amount # <<>>

\* C22: new date line.  A date line appends the record in progress when it is
\* complete and appends nothing otherwise, and no category or amount
\* collected before the date line is left in the record it starts.
C22_NewDateLine ==
    Accumulated =>
        \A k \in DOMAIN doc.lines :
            IsDateLine(doc.lines[k]) =>
                /\ FieldsAfter(k).category = <<>>
                /\ FieldsAfter(k).amount = <<>>
                /\ Len(FieldsAfter(k).entries) =
                     Len(FieldsBefore(k).entries)
                       + (IF AllFieldsSet(FieldsBefore(k)) THEN 1 ELSE 0)

\* C23: fallback description.  The description of every record emitted is a
\* line that is no date line, carries no amount and is no category.
C23_FallbackDescription ==
    Accumulated =>
        \A k \in DOMAIN extracted :
            ~extracted[k].parsing_failed =>
                /\ ~IsDateLine(extracted[k].description[1])
                /\ FirstAmount(extracted[k].description[1]) = <<>>
                /\ extracted[k].description[1] \notin EDCategories

AccumulatorFields == {"date", "description", "category", "amount"}

\* C24: detector priority.  One line changes at most one of the four fields
\* of the record in progress.
C24_OneDetectorPerLine ==
    Accumulated =>
        \A k \in DOMAIN doc.lines :
            Cardinality({f \in AccumulatorFields :
                            FieldsAfter(k)[f] # FieldsBefore(k)[f]}) <= 1

\* the record in progress is emitted at line k or at the end of the lines
EmittedAt(k) ==
    IF task = "extract_expense_s3"
    THEN Len(S3Emit(FieldsAfter(k)).entries) = Len(FieldsAfter(k).entries) + 1
    ELSE \/ k < Len(doc.lines)
         \/ /\ extracted # <<>>
            /\ extracted[Len(extracted)] = EDEntry(FieldsAfter(k))

\* C25: completeness is non-nullness.  A record in progress whose four
\* fields are all set is emitted (by extract_expense_data_from_s3 at once, by
\* extract_expense_data at the latest at the end of the lines), whatever
\* its amount.
C25_CompleteIsEmitted ==
    Accumulated =>
        \A k \in DOMAIN doc.lines :
            AllFieldsSet(FieldsAfter(k)) => EmittedAt(k)

\* the date lines of the document that parse_date cannot convert
BadDateLines == {k \in DOMAIN doc.lines :
                    IsDateLine(doc.lines[k]) /\ parse_date(doc.lines[k]) = <<>>}

\* C26: normalization failure.  A document with a date line that is no
\* calendar date yields a parse-failed record.
C26_BadDateIsMarked ==
    (Accumulated /\ BadDateLines # {}) =>
        \E k \in DOMAIN extracted : extracted[k].parsing_failed

\* line k is handled by the amount detector of the extractor
AmountLine(k) ==
    /\ FirstAmount(doc.lines[k]) # <<>>
    /\ IF task = "extract_expense_s3"
       THEN ~IsDateLine(doc.lines[k]) /\ IsInrAmountLine(doc.lines[k])
       ELSE doc.lines[k] # <<"PAGE_SEPARATOR">>

FolderTasks == {"preview", "current_account"}

\* what the run's extractors return for one document of each side
FirstSideOf(d) ==
    IF task = "preview" THEN extract_expense_data_from_s3(d)
    ELSE extract_invoice_data_from_s3(d)

StatementSideOf(d) ==
    IF task = "preview" THEN extract_statement_entries_from_s3(d)
    ELSE extract_current_account_entries_from_s3(d)

RECURSIVE FlatFirst(_)
\* the records of the documents ks, document after document
FlatFirst(ks) ==
    IF ks = <<>> THEN <<>> ELSE FirstSideOf(Head(ks)) \o FlatFirst(Tail(ks))

RECURSIVE FlatStatements(_)
FlatStatements(ks) ==
    IF ks = <<>> THEN <<>> ELSE StatementSideOf(Head(ks)) \o FlatStatements(Tail(ks))

\* C27: barrier.  When the reconciliation is called, every document of both
\* sides has been through its extractor and each list holds the records of
\* its documents in the order the documents were enumerated.
C27_Barrier ==
    (task \in FolderTasks /\ pc = "reconcile") =>
        /\ done_keys = Len(keys)
        /\ done_statement_keys = Len(statement_keys)
        /\ extracted = FlatFirst(keys)
        /\ all_statements = FlatStatements(statement_keys)

\* a run over two documents a side whose records differ came to the
\* reconciliation
C27_Witness ==
    /\ task \in FolderTasks /\ pc = "reconcile"
    /\ Len(keys) = 2 /\ Len(statement_keys) = 2
    /\ FirstSideOf(keys[1]) # <<>> /\ FirstSideOf(keys[2]) # <<>>
    /\ FirstSideOf(keys[1]) # FirstSideOf(keys[2])
    /\ StatementSideOf(statement_keys[1]) # <<>>
    /\ StatementSideOf(statement_keys[2]) # <<>>
    /\ StatementSideOf(statement_keys[1]) # StatementSideOf(statement_keys[2])
    /\ extracted = FirstSideOf(keys[1]) \o FirstSideOf(keys[2])
    /\ all_statements = StatementSideOf(statement_keys[1])
                          \o StatementSideOf(statement_keys[2])

(***************************************************************************)
(* Frame of the matcher and of the reconcile functions.                    *)
(***************************************************************************)
ReconcileTasks == {"invoice", "pre_match", "invoice_v0", "expense"}

\* a step that leaves the record lists of the caller as they are
InputsKept ==
    /\ invoices' = invoices
    /\ current_statements' = current_statements
    /\ expenses' = expenses
    /\ statements' = statements

ReconcileStepKeepsInputs == (task \in ReconcileTasks) => InputsKept

\* C28: inputs are not mutated.  No step of pre_match_invoices_payments or of
\* a reconcile function changes the record lists it was called with.
C28_InputsNotMutated == [][ReconcileStepKeepsInputs]_vars

\* a reconciliation returned buckets built from lists that hold a
\* parse-failure marker, pairs of the pre-match and unmatched records
C28_Witness ==
    /\ task = "invoice" /\ pc = "done" /\ result.status = "returned"
    /\ Len(valid_invoices) < Len(invoices)
    /\ pm.matched_pairs # <<>>
    /\ result.response.unmatched_payments # <<>>

\* the i-th smallest element of a set of numbers
IthSmallest(S, i) == CHOOSE x \in S : Cardinality({y \in S : y < x}) = i - 1

\* the records of list whose index is outside idxs, in list order
OutsideOf(list, idxs) ==
    [i \in 1..Cardinality((DOMAIN list) \ idxs) |->
        list[IthSmallest((DOMAIN list) \ idxs, i)]]

\* C30: matcher bookkeeping.  On return the pair list and the two index sets
\* have the same size, and the unmatched lists are the inputs outside the
\* index sets, in input order.
C30_Bookkeeping ==
    PreMatched =>
        /\ pm.matched_invoice_idxs \subseteq DOMAIN valid_invoices
        /\ pm.matched_payment_idxs \subseteq DOMAIN valid_statements
        /\ Len(pm.matched_pairs) = Cardinality(pm.matched_invoice_idxs)
        /\ Len(pm.matched_pairs) = Cardinality(pm.matched_payment_idxs)
        /\ pm.unmatched_invoices = OutsideOf(valid_invoices, pm.matched_invoice_idxs)
        /\ pm.unmatched_payments = OutsideOf(valid_statements, pm.matched_payment_idxs)

\* the pre-match made a pair that is not the first of either list and left
\* records of both sides unmatched
C30_Witness ==
    /\ PreMatched
    /\ pm.matched_pairs # <<>>
    /\ 1 \notin pm.matched_invoice_idxs
    /\ 1 \notin pm.matched_payment_idxs
    /\ pm.unmatched_invoices # <<>> /\ pm.unmatched_payments # <<>>

(***************************************************************************)
(* Properties of the metrics.                                              *)
(***************************************************************************)
\* the number of entry lines between the title line and the next title line
ListedUnder(summary, title) ==
    Cardinality({k \in DOMAIN summary :
        /\ summary[k].kind = "entry"
        /\ \E t \in 1..(k - 1) :
              /\ summary[t].kind = "title" /\ summary[t].text = title
              /\ \A u \in (t + 1)..(k - 1) : summary[u].kind = "entry"})

\* C29: metric counts follow the summary sections.  The three counts read
\* back from the summary of reconcile_with_llm equal the numbers of entries
\* listed under the matched, unmatched-expense and unmatched-debit sections.
C29_MetricsFollowSections ==
    ExpenseReturned =>
        /\ calculate_savings_metrics(result.summary).matched_with_bank_statement
             = ListedUnder(result.summary, "Matched Expense Bills:")
        /\ calculate_savings_metrics(result.summary).unmatched_expense_bills
             = ListedUnder(result.summary, "Unmatched Expense Bills:")
        /\ calculate_savings_metrics(result.summary).unmatched_bank_debits
             = ListedUnder(result.summary, "Unmatched Debits:")

====
